---------------------------- MODULE Spec2Model ----------------------------
(***************************************************************************)
(* DJQ, the session-based song request queue (src/unnamed/part_000), and  *)
(* its single-tenant predecessor with OpenAI enrichment (src/server.js),   *)
(* which runs under SpecEnrich and SpecSubmit only.                        *)
(*                                                                         *)
(* The state is the SQLite database (tables sessions and submissions and   *)
(* the AUTOINCREMENT counter of submissions), the process-wide Spotify     *)
(* token cache, the wall clock, the requests whose handler is suspended    *)
(* on a database statement or on a network call, and the last HTTP         *)
(* response sent.  One action is one turn of the event loop: a statement   *)
(* (or a network call) completes and its callback runs up to the next      *)
(* statement it queues or the response it sends.                           *)
(*                                                                         *)
(* Strings whose characters matter (session codes, session names) are      *)
(* sequences of one-character strings; the empty sequence is the empty     *)
(* string and also stands for an absent (undefined) field, both falsy.     *)
(***************************************************************************)
EXTENDS Integers, Sequences, FiniteSets, Bags, TLC

VARIABLES
    sessions,            \* table sessions: a set of rows
    submissions,         \* table submissions: a set of rows
    lastID,              \* AUTOINCREMENT counter of submissions
    spotifyAccessToken,  \* cached bearer token, NoToken when null
    tokenExpiry,         \* cached expiry in ms, <<>> when null, <<t>> otherwise
    now,                 \* the wall clock, Date.now(), in ms
    inflight,            \* bag of suspended requests
    response             \* the last response sent

vars == <<sessions, submissions, lastID, spotifyAccessToken, tokenExpiry,
          now, inflight, response>>

---------------------------------------------------------------------------
(* Bounds of the model *)

\* sessions created or being created
MaxSessions == 2
\* POST /api/sessions requests suspended at the same time
MaxCreating == 2
\* requests suspended at the same time, when other handlers run too
MaxInFlight == 1
\* rows ever inserted into submissions
MaxSubmits == 2
\* GET /api/spotify/suggestions requests suspended at the same time
MaxCallers == 2
\* steps of the wall clock
MaxTicks == 2
\* lookups of one generateSessionId explored where the other handlers run too
MaxLookups == 3
\* Math.random() is n / RandomResolution for n in 0 .. RandomResolution - 1
RandomResolution == 2
\* characters of the path segment of GET /:sessionCode
MaxPath == 5

---------------------------------------------------------------------------
(* Values *)

\* a null / undefined string field
NULL == "null"

\* spotifyAccessToken = null
NoToken == "null"

Falsy(s) == s = NULL \/ s = ""

\* String.prototype.trim on a sequence of characters
WhiteSpace == {" ", "\t", "\n"}

RECURSIVE trimStart(_)
trimStart(s) ==
    IF s # <<>> /\ Head(s) \in WhiteSpace THEN trimStart(Tail(s)) ELSE s

RECURSIVE trimEnd(_)
trimEnd(s) ==
    IF s # <<>> /\ s[Len(s)] \in WhiteSpace
    THEN trimEnd(SubSeq(s, 1, Len(s) - 1))
    ELSE s

trim(s) == trimEnd(trimStart(s))

\* the alphabet of generateShortCode
chars ==
    << "A", "B", "C", "D", "E", "F", "G", "H", "I", "J", "K", "L", "M",
       "N", "O", "P", "Q", "R", "S", "T", "U", "V", "W", "X", "Y", "Z",
       "0", "1", "2", "3", "4", "5", "6", "7", "8", "9" >>

CodeLength == 4

\* the values Math.random() takes, as numerators over RandomResolution
RandomValues == 0 .. (RandomResolution - 1)

\* Math.floor(Math.random() * chars.length), then chars.charAt
randomChar(r) == chars[((r * Len(chars)) \div RandomResolution) + 1]

\* a loop bound off by one: five characters
generateShortCodeLong(draws) ==
    [i \in 1 .. (CodeLength + 1) |-> randomChar(draws[1])]

\* generateShortCode with the four draws of Math.random() given
generateShortCode(draws) == [i \in 1 .. CodeLength |-> randomChar(draws[i])]

\* the draws of one call of generateShortCode
Draws == [1 .. CodeLength -> RandomValues]

\* the draws explored where the other handlers run too: the four agree
FewDraws == { d \in Draws : \A i \in 1 .. CodeLength : d[i] = d[1] }

maxAttempts == 100

\* a null TEXT column, and an undefined field of a settings body
NullText == << NULL >>

\* the texts 'Submit your song below' and '#000', each as one piece
DefaultSubtitle == << "Submit your song below" >>
DefaultBackground == << "#000" >>

\* the one-minute buffer of getSpotifyAccessToken, in ms
expiryBuffer == 60000

\* the cache check without the comparison with the clock
cacheValidNoExpiry == spotifyAccessToken # NoToken /\ spotifyAccessToken # ""

\* getSpotifyAccessToken answers from the cache
cacheValid ==
    /\ spotifyAccessToken # NoToken /\ spotifyAccessToken # ""
    /\ tokenExpiry # <<>> /\ tokenExpiry[1] # 0
    /\ now < tokenExpiry[1]

\* a store that keeps the whole life of the token, without the buffer
storeTokenNoBuffer(data) ==
    /\ spotifyAccessToken' = data.access_token
    /\ tokenExpiry' = << now + (data.expires_in * 1000) >>

\* a store that keeps the expiry of an earlier response
storeTokenKeepsExpiry(data) ==
    /\ spotifyAccessToken' = data.access_token
    /\ tokenExpiry' =
         IF tokenExpiry = <<>>
         THEN << now + (data.expires_in * 1000) - expiryBuffer >>
         ELSE tokenExpiry

\* the cache after a successful exchange answered with data
storeToken(data) ==
    /\ spotifyAccessToken' = data.access_token
    /\ tokenExpiry' = << now + (data.expires_in * 1000) - expiryBuffer >>

\* a catch branch that drops the cached token
exchangeFailedClears == spotifyAccessToken' = NoToken /\ tokenExpiry' = <<>>

\* the catch branch of getSpotifyAccessToken: null is returned, the cache
\* is not written
exchangeFailed == UNCHANGED <<spotifyAccessToken, tokenExpiry>>

\* Camelot wheel tables, indexed by pitch class 0 .. 11
camelotMajor == << 8, 3, 10, 5, 12, 7, 2, 9, 4, 11, 6, 1 >>
camelotMinor == << 5, 12, 7, 2, 9, 4, 11, 6, 1, 8, 3, 10 >>

\* the suffixes of the two modes exchanged
convertToCamelotKeySwapped(key, mode) ==
    IF key = -1 \/ mode = -1 THEN NULL
    ELSE IF mode = 1 THEN ToString(camelotMajor[key + 1]) \o "B"
    ELSE ToString(camelotMinor[key + 1]) \o "A"

convertToCamelotKey(key, mode) ==
    IF key = -1 \/ mode = -1 THEN NULL
    ELSE IF mode = 1 THEN ToString(camelotMajor[key + 1]) \o "A"
    ELSE ToString(camelotMinor[key + 1]) \o "B"

keyNames == << "C", "C#", "D", "D#", "E", "F", "F#", "G", "G#", "A", "A#", "B" >>
modeNames == << "minor", "major" >>

\* Math.round of a tempo given in tenths of a beat per minute
roundTempo(tenths) == (tenths + 5) \div 10

\* the result of getSpotifyAudioFeatures for an answer of the features call
audioFeatures(features) ==
    [ bpm |-> IF features.tempo # 0 THEN << roundTempo(features.tempo) >> ELSE <<>>,
      key_regular |->
          IF features.key # -1 /\ features.mode # -1
          THEN keyNames[features.key + 1] \o " " \o modeNames[features.mode + 1]
          ELSE NULL,
      key_camelot |-> convertToCamelotKey(features.key, features.mode) ]

\* getSpotifyAudioFeatures returned null
NoFeatures == [ bpm |-> <<>>, key_regular |-> NULL, key_camelot |-> NULL ]

---------------------------------------------------------------------------
(* Inputs of the requests *)

\* req.body.name of POST /api/sessions
Names == { <<>>, <<" ">>, <<" ", "D", "J">> }

\* every code generateShortCode can return
Codes == { generateShortCode(d) : d \in Draws }

FewCodes == { generateShortCode(d) : d \in FewDraws }

\* a well-formed code that names no session: "Z" is never drawn
UnknownCode == << "Z", "Z", "Z", "Z" >>

\* req.body.sessionId / req.query.sessionId: absent, unknown, or known
SessionIds == { <<>>, UnknownCode } \cup { s.id : s \in sessions }

\* req.body of POST /api/submit
SongNames == { "", "yesterday" }
Artists == { NULL, "beatles" }
UserNames == { "" }
SpotifyIds == { NULL, "3BQHpFgAp4l80e1XslIjNI" }

\* req.body of POST /api/update-settings
SettingsBodies ==
    { [ welcomeMessage |-> << "Welcome" >>, subtitleMessage |-> << >>,
        background |-> NullText ] }

\* the bodies explored where only the settings are at stake: each field
\* undefined, empty, blank, or a text, with or without spaces around it
AllSettingsBodies ==
    [ welcomeMessage : { NullText, << >>, << " " >>, << " ", "Hi", " " >> },
      subtitleMessage : { NullText, << "Sing" >> },
      background : { NullText, << "#fff" >> } ]

\* answers of https://accounts.spotify.com/api/token; Failed when it throws
Failed == [ failed |-> TRUE ]
TokenAnswers ==
    { Failed } \cup
    [ failed : {FALSE}, access_token : {"BQA", "BQB"}, expires_in : {30, 90, 3600} ]

\* the answers explored where the database handlers run too
OneTokenAnswers ==
    { Failed, [ failed |-> FALSE, access_token |-> "BQA", expires_in |-> 3600 ] }

\* req.query.q of GET /api/spotify/suggestions
Queries == { <<>>, <<" ">>, <<"y", "e", "s">> }

Track ==
    [ id |-> "3BQHpFgAp4l80e1XslIjNI", name |-> "Yesterday",
      artists |-> << "The Beatles" >>, album |-> "Help!" ]

\* answers of https://api.spotify.com/v1/search
SearchAnswers ==
    { Failed, [ failed |-> FALSE, tracks |-> <<>> ],
      [ failed |-> FALSE, tracks |-> << Track >> ] }

\* one step of the wall clock, in ms: half the life of a cached one-hour token
TickMs == ((3600 * 1000) - expiryBuffer) \div 2

\* answers of https://api.spotify.com/v1/audio-features/{id}
FeaturesAnswers ==
    { Failed, [ failed |-> FALSE, tempo |-> 1285, key |-> 9, mode |-> 0 ] }

\* answers of the audio-features calls with every pitch class and mode
\* Spotify reports, -1 when it detected none
KeyAnswers ==
    { Failed } \cup
    [ failed : {FALSE}, tempo : {0, 1285}, key : -1 .. 11, mode : -1 .. 1 ]

---------------------------------------------------------------------------
(* The database *)

sessionRow(id) == {s \in sessions : s.id = id}

sessionExists(id) == sessionRow(id) # {}

\* a table without the PRIMARY KEY
insertSessionAlways(id) == TRUE

\* INSERT INTO sessions: id is the PRIMARY KEY
insertSessionAllowed(id) == ~ sessionExists(id)

\* a SELECT without the WHERE clause
selectAllSubmissions(sessionId) == submissions

\* the rows SELECT * FROM submissions WHERE session_id = ? returns
selectSubmissions(sessionId) ==
    {row \in submissions : row.session_id = sessionId}

\* a DELETE without the WHERE clause
deletesAll(sessionId) == submissions

\* the rows DELETE FROM submissions WHERE session_id = ? removes
deletedBy(sessionId) ==
    {row \in submissions : row.session_id = sessionId}

\* CURRENT_TIMESTAMP, in seconds
currentTimestamp == now \div 1000

newSession(id, sessionName) ==
    [ rowid |-> Cardinality(sessions) + 1,
      id |-> id, name |-> sessionName, created_at |-> currentTimestamp,
      is_active |-> 1, welcome_message |-> sessionName,
      subtitle_message |-> DefaultSubtitle, background |-> DefaultBackground ]

---------------------------------------------------------------------------
(* Requests in flight *)

Suspend(r) == inflight' = inflight (+) SetToBag({r})

Resume(r, next) == inflight' = (inflight (-) SetToBag({r})) (+) SetToBag({next})

Finish(r) == inflight' = inflight (-) SetToBag({r})

InFlight == BagToSet(inflight)

Creating == {r \in InFlight : r.op = "create"}

Submitting == {r \in InFlight : r.op = "submit"}

Listing == {r \in InFlight : r.op = "list"}

Suggesting == {r \in InFlight : r.op = "suggestions"}

NumInFlight == BagCardinality(inflight)

NumCreating ==
    LET b == [r \in Creating |-> inflight[r]] IN BagCardinality(b)

NumSubmitting ==
    LET b == [r \in Submitting |-> inflight[r]] IN BagCardinality(b)

NumSuggesting ==
    LET b == [r \in Suggesting |-> inflight[r]] IN BagCardinality(b)

---------------------------------------------------------------------------
(* POST /api/sessions *)

\* the request arrives: validation, then generateSessionId calls tryGenerate,
\* which queues the first lookup.  The code a lookup asks for is drawn by
\* generateShortCode before the statement is queued and read by nobody until
\* the statement runs: the draw is made in GenerateLookup.
CreateSession(name) ==
    /\ IF name = <<>> \/ trim(name) = <<>>
       THEN /\ response' = [op |-> "create", status |-> 400]
            /\ UNCHANGED inflight
       ELSE /\ NumCreating < MaxCreating
            /\ Cardinality(sessions) + NumCreating < MaxSessions
            /\ Suspend([op |-> "create", pc |-> "lookup", name |-> name,
                        attempts |-> 1])
            /\ UNCHANGED response
    /\ UNCHANGED <<sessions, submissions, lastID, spotifyAccessToken,
                   tokenExpiry, now>>

\* a retry without the attempt limit
tryGenerateForever(r) ==
    /\ Resume(r, [r EXCEPT !.attempts = r.attempts + 1])
    /\ UNCHANGED response

\* tryGenerate, entered again after a lookup that found a row
tryGenerate(r) ==
    LET attempts == r.attempts + 1 IN
    IF attempts > maxAttempts
    THEN /\ Finish(r)
         /\ response' = [op |-> "create", status |-> 500]
    ELSE /\ Resume(r, [r EXCEPT !.attempts = attempts])
         /\ UNCHANGED response

\* db.get('SELECT id FROM sessions WHERE id = ?', [sessionId]) completes
GenerateLookup(r, sessionId, err) ==
    /\ r \in Creating /\ r.pc = "lookup"
    /\ IF err
       THEN /\ Finish(r)
            /\ response' = [op |-> "create", status |-> 500]
       ELSE IF sessionExists(sessionId)
       THEN tryGenerate(r)
       ELSE /\ Resume(r, [op |-> "create", pc |-> "insert", name |-> r.name,
                          sessionId |-> sessionId])
            /\ UNCHANGED response
    /\ UNCHANGED <<sessions, submissions, lastID, spotifyAccessToken,
                   tokenExpiry, now>>

\* stmt.run of INSERT INTO sessions completes
InsertSession(r, err) ==
    /\ r \in Creating /\ r.pc = "insert"
    /\ Finish(r)
    /\ IF err \/ ~ insertSessionAllowed(r.sessionId)
       THEN /\ response' = [op |-> "create", status |-> 500]
            /\ UNCHANGED sessions
       ELSE /\ sessions' = sessions \cup {newSession(r.sessionId, trim(r.name))}
            /\ response' = [op |-> "create", status |-> 200,
                            id |-> r.sessionId, name |-> trim(r.name)]
    /\ UNCHANGED <<submissions, lastID, spotifyAccessToken, tokenExpiry, now>>

---------------------------------------------------------------------------
(* POST /api/submit *)

\* a handler that skips the session check
sessionFoundAlways(sessionId) == TRUE

\* the session check of the handler
sessionFound(sessionId) == sessionExists(sessionId)

\* a handler that checks the sessionId before the song name and the artist
SubmitSessionFirst(body, err) ==
    /\ IF body.sessionId = <<>>
       THEN /\ response' = [op |-> "submit", status |-> 400,
                            error |-> "Session ID is required"]
            /\ UNCHANGED <<inflight>>
       ELSE IF Falsy(body.songName) \/ Falsy(body.artist)
       THEN /\ response' = [op |-> "submit", status |-> 400,
                            error |-> "Song name and artist are required"]
            /\ UNCHANGED <<inflight>>
       ELSE IF err
       THEN /\ response' = [op |-> "submit", status |-> 500]
            /\ UNCHANGED <<inflight>>
       ELSE IF ~ sessionFound(body.sessionId)
       THEN /\ response' = [op |-> "submit", status |-> 404]
            /\ UNCHANGED <<inflight>>
       ELSE /\ NumInFlight < MaxInFlight
            /\ lastID + NumSubmitting < MaxSubmits
            /\ Suspend([op |-> "submit", body |-> body, features |-> NoFeatures,
                        token |-> IF ~ Falsy(body.spotifyId) /\ cacheValid
                                  THEN spotifyAccessToken ELSE NoToken,
                        fromCache |-> ~ Falsy(body.spotifyId) /\ cacheValid,
                        pc |-> IF Falsy(body.spotifyId) THEN "insert"
                               ELSE IF cacheValid THEN "features"
                               ELSE "exchange"])
            /\ UNCHANGED response
    /\ UNCHANGED <<sessions, submissions, lastID, spotifyAccessToken,
                   tokenExpiry, now>>

\* the request arrives, is validated, and the session check completes
Submit(body, err) ==
    /\ IF Falsy(body.songName) \/ Falsy(body.artist)
       THEN /\ response' = [op |-> "submit", status |-> 400,
                            error |-> "Song name and artist are required"]
            /\ UNCHANGED <<inflight>>
       ELSE IF body.sessionId = <<>>
       THEN /\ response' = [op |-> "submit", status |-> 400,
                            error |-> "Session ID is required"]
            /\ UNCHANGED <<inflight>>
       ELSE IF err
       THEN /\ response' = [op |-> "submit", status |-> 500]
            /\ UNCHANGED <<inflight>>
       ELSE IF ~ sessionFound(body.sessionId)
       THEN /\ response' = [op |-> "submit", status |-> 404]
            /\ UNCHANGED <<inflight>>
       ELSE /\ NumInFlight < MaxInFlight
            /\ lastID + NumSubmitting < MaxSubmits
            /\ Suspend([op |-> "submit", body |-> body, features |-> NoFeatures,
                        token |-> IF ~ Falsy(body.spotifyId) /\ cacheValid
                                  THEN spotifyAccessToken ELSE NoToken,
                        fromCache |-> ~ Falsy(body.spotifyId) /\ cacheValid,
                        pc |-> IF Falsy(body.spotifyId) THEN "insert"
                               ELSE IF cacheValid THEN "features"
                               ELSE "exchange"])
            /\ UNCHANGED response
    /\ UNCHANGED <<sessions, submissions, lastID, spotifyAccessToken,
                   tokenExpiry, now>>

\* the token exchange of getSpotifyAccessToken, called by
\* getSpotifyAudioFeatures, completes
SubmitExchange(r, answer) ==
    /\ r \in Submitting /\ r.pc = "exchange"
    /\ IF answer.failed
       THEN /\ Resume(r, [r EXCEPT !.pc = "insert"])
            /\ exchangeFailed
       ELSE /\ storeToken(answer)
            /\ Resume(r, [r EXCEPT !.pc = "features",
                                   !.token = answer.access_token])
    /\ UNCHANGED <<sessions, submissions, lastID, now, response>>

\* a lookup whose failure is not caught: the request is answered 500
SubmitFeaturesThrows(r, answer) ==
    /\ r \in Submitting /\ r.pc = "features"
    /\ IF answer.failed
       THEN /\ Finish(r)
            /\ response' = [op |-> "submit", status |-> 500]
       ELSE /\ Resume(r, [r EXCEPT !.pc = "insert",
                                   !.features = audioFeatures(answer)])
            /\ UNCHANGED response
    /\ UNCHANGED <<sessions, submissions, lastID, spotifyAccessToken,
                   tokenExpiry, now>>

\* the audio-features call of getSpotifyAudioFeatures completes
SubmitFeatures(r, answer) ==
    /\ r \in Submitting /\ r.pc = "features"
    /\ Resume(r, [r EXCEPT !.pc = "insert",
                           !.features = IF answer.failed THEN NoFeatures
                                        ELSE audioFeatures(answer)])
    /\ UNCHANGED <<sessions, submissions, lastID, spotifyAccessToken,
                   tokenExpiry, now, response>>

\* a flag that records a lookup that succeeded
newSubmissionFetchedOnSuccess(id, body, features) ==
    [ id |-> id, session_id |-> body.sessionId,
      song_name |-> body.songName, artist |-> body.artist,
      user_name |-> IF Falsy(body.userName) THEN NULL ELSE body.userName,
      original_song_name |-> body.songName, original_artist |-> body.artist,
      bpm |-> features.bpm, key_camelot |-> features.key_camelot,
      key_regular |-> features.key_regular,
      spotify_fetched |-> IF features = NoFeatures THEN 0 ELSE 1,
      created_at |-> currentTimestamp ]

\* the row INSERT INTO submissions of the session-based server stores
newSubmission(id, body, features) ==
    [ id |-> id, session_id |-> body.sessionId,
      song_name |-> body.songName, artist |-> body.artist,
      user_name |-> IF Falsy(body.userName) THEN NULL ELSE body.userName,
      original_song_name |-> body.songName, original_artist |-> body.artist,
      bpm |-> features.bpm, key_camelot |-> features.key_camelot,
      key_regular |-> features.key_regular,
      spotify_fetched |-> IF Falsy(body.spotifyId) THEN 0 ELSE 1,
      created_at |-> currentTimestamp ]

\* stmt.run of INSERT INTO submissions completes
SubmitInsert(r, err) ==
    /\ r \in Submitting /\ r.pc = "insert"
    /\ Finish(r)
    /\ IF err
       THEN /\ response' = [op |-> "submit", status |-> 500]
            /\ UNCHANGED <<submissions, lastID>>
       ELSE /\ lastID' = lastID + 1
            /\ submissions' =
                 submissions \cup {newSubmission(lastID + 1, r.body, r.features)}
            /\ response' = [op |-> "submit", status |-> 200, id |-> lastID + 1]
    /\ UNCHANGED <<sessions, spotifyAccessToken, tokenExpiry, now>>

---------------------------------------------------------------------------
(* GET /api/submissions *)

\* the request arrives, is validated, and the session check completes
ListSubmissions(sessionId, err) ==
    /\ IF sessionId = <<>>
       THEN /\ response' = [op |-> "list", status |-> 400]
            /\ UNCHANGED inflight
       ELSE IF err
       THEN /\ response' = [op |-> "list", status |-> 500]
            /\ UNCHANGED inflight
       ELSE IF ~ sessionExists(sessionId)
       THEN /\ response' = [op |-> "list", status |-> 404]
            /\ UNCHANGED inflight
       ELSE /\ NumInFlight < MaxInFlight
            /\ Suspend([op |-> "list", pc |-> "fetch", sessionId |-> sessionId])
            /\ UNCHANGED response
    /\ UNCHANGED <<sessions, submissions, lastID, spotifyAccessToken,
                   tokenExpiry, now>>

\* the sequences that hold each row of rows once, ORDER BY created_at DESC
orderedByCreatedAtDesc(rows) ==
    { q \in [1 .. Cardinality(rows) -> rows] :
        /\ \A i, j \in DOMAIN q : i # j => q[i] # q[j]
        /\ \A i, j \in DOMAIN q : i < j => q[i].created_at >= q[j].created_at }

\* "YYYY-MM-DD HH:MM:SS" becomes "YYYY-MM-DDTHH:MM:SS.000Z"
formatCreatedAt(row) ==
    [row EXCEPT !.created_at = << row.created_at, "T", ".000Z" >>]

\* db.all('SELECT * FROM submissions WHERE session_id = ? ORDER BY ...')
ListFetch(r, err) ==
    /\ r \in Listing /\ r.pc = "fetch"
    /\ Finish(r)
    /\ IF err
       THEN response' = [op |-> "list", status |-> 500]
       ELSE \E q \in orderedByCreatedAtDesc(selectSubmissions(r.sessionId)) :
              response' = [op |-> "list", status |-> 200,
                           rows |-> [i \in DOMAIN q |-> formatCreatedAt(q[i])]]
    /\ UNCHANGED <<sessions, submissions, lastID, spotifyAccessToken,
                   tokenExpiry, now>>

---------------------------------------------------------------------------
(* DELETE /api/clear *)

\* a clear that removes the row of the session with its submissions
ClearWithSession(sessionId, err) ==
    /\ IF sessionId = <<>>
       THEN /\ response' = [op |-> "clear", status |-> 400]
            /\ UNCHANGED <<submissions, sessions>>
       ELSE IF err
       THEN /\ response' = [op |-> "clear", status |-> 500]
            /\ UNCHANGED <<submissions, sessions>>
       ELSE /\ submissions' = submissions \ deletedBy(sessionId)
            /\ sessions' = sessions \ sessionRow(sessionId)
            /\ response' = [op |-> "clear", status |-> 200,
                            deletedCount |-> Cardinality(deletedBy(sessionId))]
    /\ UNCHANGED <<lastID, spotifyAccessToken, tokenExpiry, now, inflight>>

Clear(sessionId, err) ==
    /\ IF sessionId = <<>>
       THEN /\ response' = [op |-> "clear", status |-> 400]
            /\ UNCHANGED submissions
       ELSE IF err
       THEN /\ response' = [op |-> "clear", status |-> 500]
            /\ UNCHANGED submissions
       ELSE /\ submissions' = submissions \ deletedBy(sessionId)
            /\ response' = [op |-> "clear", status |-> 200,
                            deletedCount |-> Cardinality(deletedBy(sessionId))]
    /\ UNCHANGED <<sessions, lastID, spotifyAccessToken, tokenExpiry, now,
                   inflight>>

---------------------------------------------------------------------------
(* POST /api/update-settings *)

orNull(v) == IF Falsy(v) THEN NULL ELSE v

\* a value stored as "" instead of null
textOrEmpty(v) == IF v = NullText \/ v = << >> THEN << >> ELSE v

\* welcomeMessage || null, for a text given as a sequence of pieces
textOrNull(v) == IF v = NullText \/ v = << >> THEN NullText ELSE v

\* an UPDATE of sessions without the WHERE clause
UpdateSettingsEverySession(sessionId, body, err) ==
    /\ IF sessionId = <<>>
       THEN /\ response' = [op |-> "update-settings", status |-> 400]
            /\ UNCHANGED sessions
       ELSE IF err
       THEN /\ response' = [op |-> "update-settings", status |-> 500]
            /\ UNCHANGED sessions
       ELSE /\ sessions' =
                 { [s EXCEPT
                      !.welcome_message = textOrNull(body.welcomeMessage),
                      !.subtitle_message = textOrNull(body.subtitleMessage),
                      !.background = textOrNull(body.background)] : s \in sessions }
            /\ response' = [op |-> "update-settings", status |-> 200]
    /\ UNCHANGED <<submissions, lastID, spotifyAccessToken, tokenExpiry, now,
                   inflight>>

\* db.run('UPDATE sessions SET ... WHERE id = ?') of the handler completes
UpdateSettings(sessionId, body, err) ==
    /\ IF sessionId = <<>>
       THEN /\ response' = [op |-> "update-settings", status |-> 400]
            /\ UNCHANGED sessions
       ELSE IF err
       THEN /\ response' = [op |-> "update-settings", status |-> 500]
            /\ UNCHANGED sessions
       ELSE /\ sessions' =
                 { IF s.id = sessionId
                   THEN [s EXCEPT
                           !.welcome_message = textOrNull(body.welcomeMessage),
                           !.subtitle_message = textOrNull(body.subtitleMessage),
                           !.background = textOrNull(body.background)]
                   ELSE s : s \in sessions }
            /\ response' = [op |-> "update-settings", status |-> 200]
    /\ UNCHANGED <<submissions, lastID, spotifyAccessToken, tokenExpiry, now,
                   inflight>>

---------------------------------------------------------------------------
(* GET /api/settings *)

\* a read that trims the value it returns
resolveTrimmed(v, default) ==
    IF v # NullText /\ v # << >> /\ trim(v) # << >> THEN trim(v) ELSE default

\* (v && v.trim() !== '') ? v : default
resolve(v, default) ==
    IF v # NullText /\ v # << >> /\ trim(v) # << >> THEN v ELSE default

\* the settings the handler answers with for a row of sessions
settingsOf(row) ==
    [ welcomeMessage |-> resolve(row.welcome_message, row.name),
      subtitleMessage |-> resolve(row.subtitle_message, DefaultSubtitle),
      background |-> resolve(row.background, DefaultBackground) ]

GetSettings(sessionId, err) ==
    /\ IF sessionId = <<>>
       THEN response' = [op |-> "settings", status |-> 200,
                         settings |-> [ welcomeMessage |-> NullText,
                                        subtitleMessage |-> DefaultSubtitle,
                                        background |-> DefaultBackground ]]
       ELSE IF err
       THEN response' = [op |-> "settings", status |-> 500]
       ELSE IF ~ sessionExists(sessionId)
       THEN response' = [op |-> "settings", status |-> 404]
       ELSE \E row \in sessionRow(sessionId) :
              response' = [op |-> "settings", status |-> 200,
                           sessionId |-> sessionId, settings |-> settingsOf(row)]
    /\ UNCHANGED <<sessions, submissions, lastID, spotifyAccessToken,
                   tokenExpiry, now, inflight>>

---------------------------------------------------------------------------
(* GET /:sessionCode *)

\* characters of req.params.sessionCode: upper-case and lower-case letters,
\* a digit and another character
PathChars == { "A", "Z", "9", "a", "-" }

\* req.params.sessionCode: the segments of four characters that start with
\* a letter, and shorter and longer segments
Paths ==
    { p \in [1 .. 4 -> PathChars] : p[1] \in {"A", "a"} } \cup
    UNION { [1 .. n -> {"A", "-"}] : n \in 1 .. MaxPath }

upperCase ==
    { "A", "B", "C", "D", "E", "F", "G", "H", "I", "J", "K", "L", "M",
      "N", "O", "P", "Q", "R", "S", "T", "U", "V", "W", "X", "Y", "Z" }

lowerCase ==
    { "a", "b", "c", "d", "e", "f", "g", "h", "i", "j", "k", "l", "m",
      "n", "o", "p", "q", "r", "s", "t", "u", "v", "w", "x", "y", "z" }

digits == { "0", "1", "2", "3", "4", "5", "6", "7", "8", "9" }

\* the pattern without its end anchor
codePatternOpen(sessionCode) ==
    /\ Len(sessionCode) >= 4
    /\ \A i \in 1 .. 4 : sessionCode[i] \in upperCase \cup lowerCase \cup digits

\* /^[A-Z0-9]{4}$/i.test(sessionCode): the flag i lets a letter of either
\* case match A-Z
codePattern(sessionCode) ==
    /\ Len(sessionCode) = 4
    /\ \A i \in 1 .. 4 : sessionCode[i] \in upperCase \cup lowerCase \cup digits

GetCode(sessionCode) ==
    /\ IF codePattern(sessionCode)
       THEN response' = [op |-> "code", status |-> 302,
                         location |-> << "/session/", sessionCode >>]
       ELSE response' = [op |-> "code", status |-> 404]
    /\ UNCHANGED <<sessions, submissions, lastID, spotifyAccessToken,
                   tokenExpiry, now, inflight>>

---------------------------------------------------------------------------
(* GET /api/spotify/suggestions *)

\* the request arrives; getSpotifyAccessToken answers from the cache or
\* starts the exchange
Suggestions(query) ==
    /\ IF query = <<>> \/ Len(trim(query)) = 0
       THEN /\ response' = [op |-> "suggestions", status |-> 200,
                            suggestions |-> <<>>]
            /\ UNCHANGED inflight
       ELSE /\ NumSuggesting < MaxCallers
            /\ Suspend([op |-> "suggestions", tracks |-> <<>>,
                        token |-> IF cacheValid THEN spotifyAccessToken
                                  ELSE NoToken,
                        fromCache |-> cacheValid,
                        pc |-> IF cacheValid THEN "search" ELSE "exchange"])
            /\ UNCHANGED response
    /\ UNCHANGED <<sessions, submissions, lastID, spotifyAccessToken,
                   tokenExpiry, now>>

\* the token exchange of getSpotifyAccessToken completes
SuggestionsExchange(r, answer) ==
    /\ r \in Suggesting /\ r.pc = "exchange"
    /\ IF answer.failed
       THEN /\ Finish(r)
            /\ exchangeFailed
            /\ response' = [op |-> "suggestions", status |-> 500,
                            error |-> "Failed to get Spotify access token"]
       ELSE /\ storeToken(answer)
            /\ Resume(r, [r EXCEPT !.pc = "search",
                                   !.token = answer.access_token])
            /\ UNCHANGED response
    /\ UNCHANGED <<sessions, submissions, lastID, now>>

\* the search call completes
SuggestionsSearch(r, answer) ==
    /\ r \in Suggesting /\ r.pc = "search"
    /\ IF answer.failed
       THEN /\ Finish(r)
            /\ response' = [op |-> "suggestions", status |-> 500,
                            error |-> "Failed to fetch suggestions"]
       ELSE /\ Resume(r, [r EXCEPT !.pc = "features", !.tracks = answer.tracks])
            /\ UNCHANGED response
    /\ UNCHANGED <<sessions, submissions, lastID, spotifyAccessToken,
                   tokenExpiry, now>>

RECURSIVE joinNames(_)
joinNames(names) ==
    IF Len(names) = 0 THEN ""
    ELSE IF Len(names) = 1 THEN names[1]
    ELSE names[1] \o ", " \o joinNames(Tail(names))

\* one entry of suggestions; features is the entry of audioFeaturesMap,
\* Failed when there is none
suggestion(track, features) ==
    [ songName |-> track.name, artist |-> joinNames(track.artists),
      album |-> track.album, spotifyId |-> track.id,
      bpm |-> IF features.failed \/ features.tempo = 0 THEN <<>>
              ELSE << roundTempo(features.tempo) >>,
      key |-> IF features.failed \/ features.tempo = 0 THEN NULL
              ELSE convertToCamelotKey(features.key, features.mode) ]

\* the batch audio-features call completes; its failure is swallowed
SuggestionsFeatures(r, answer) ==
    /\ r \in Suggesting /\ r.pc = "features"
    /\ Finish(r)
    /\ response' = [op |-> "suggestions", status |-> 200,
                    suggestions |->
                        [i \in DOMAIN r.tracks |-> suggestion(r.tracks[i], answer)]]
    /\ UNCHANGED <<sessions, submissions, lastID, spotifyAccessToken,
                   tokenExpiry, now>>

---------------------------------------------------------------------------
(* enhanceSongData of the session-based server: verifyWithSpotify, then      *)
(* getSpotifyAudioFeatures for the track found                               *)

\* answers of the search of verifyWithSpotify: those of the search, and a
\* track without artists, on which track.artists[0].name throws
VerifyAnswers ==
    SearchAnswers \cup
      { [ failed |-> FALSE, tracks |-> << [Track EXCEPT !.artists = << >>] >> ] }

\* a fallback that drops the names it was given
unmatchedNoNames(songName, artist) ==
    [ op |-> "enhance", corrected_song_name |-> NULL,
      corrected_artist |-> NULL, bpm |-> <<>>, key_camelot |-> NULL,
      key_regular |-> NULL, spotify_verified |-> FALSE ]

\* the result for a lookup without a match, and of the catch branch
unmatched(songName, artist) ==
    [ op |-> "enhance", corrected_song_name |-> songName,
      corrected_artist |-> artist, bpm |-> <<>>, key_camelot |-> NULL,
      key_regular |-> NULL, spotify_verified |-> FALSE ]

\* the result for the track verifyWithSpotify found; features is the result
\* of getSpotifyAudioFeatures, NoFeatures when it returned null
matched(track, features) ==
    [ op |-> "enhance", corrected_song_name |-> track.name,
      corrected_artist |-> track.artists[1], bpm |-> features.bpm,
      key_camelot |-> features.key_camelot,
      key_regular |-> features.key_regular, spotify_verified |-> TRUE ]

Enhancing == {r \in InFlight : r.op = "enhance"}

NumEnhancing ==
    LET b == [r \in Enhancing |-> inflight[r]] IN BagCardinality(b)

\* enhanceSongData(songName, artist) is called: verifyWithSpotify asks
\* getSpotifyAccessToken, which answers from the cache or starts the exchange
Enhance(songName, artist) ==
    /\ NumEnhancing < MaxInFlight
    /\ Suspend([op |-> "enhance", songName |-> songName, artist |-> artist,
                track |-> Track,
                token |-> IF cacheValid THEN spotifyAccessToken ELSE NoToken,
                pc |-> IF cacheValid THEN "search" ELSE "exchange"])
    /\ UNCHANGED <<sessions, submissions, lastID, spotifyAccessToken,
                   tokenExpiry, now, response>>

\* the token exchange asked by verifyWithSpotify completes
EnhanceExchange(r, answer) ==
    /\ r \in Enhancing /\ r.pc = "exchange"
    /\ IF answer.failed
       THEN /\ exchangeFailed
            /\ Finish(r)
            /\ response' = unmatched(r.songName, r.artist)
       ELSE /\ storeToken(answer)
            /\ Resume(r, [r EXCEPT !.pc = "search",
                                   !.token = answer.access_token])
            /\ UNCHANGED response
    /\ UNCHANGED <<sessions, submissions, lastID, now>>

\* the search of verifyWithSpotify completes; on a match
\* getSpotifyAudioFeatures asks getSpotifyAccessToken again
EnhanceSearch(r, answer) ==
    /\ r \in Enhancing /\ r.pc = "search"
    /\ IF answer.failed \/ Len(answer.tracks) = 0
          \/ Len(answer.tracks[1].artists) = 0
       THEN /\ Finish(r)
            /\ response' = unmatched(r.songName, r.artist)
       ELSE /\ Resume(r, [r EXCEPT
                            !.track = answer.tracks[1],
                            !.token = IF cacheValid THEN spotifyAccessToken
                                      ELSE NoToken,
                            !.pc = IF cacheValid THEN "features"
                                   ELSE "exchange2"])
            /\ UNCHANGED response
    /\ UNCHANGED <<sessions, submissions, lastID, spotifyAccessToken,
                   tokenExpiry, now>>

\* the token exchange asked by getSpotifyAudioFeatures completes
EnhanceFeaturesExchange(r, answer) ==
    /\ r \in Enhancing /\ r.pc = "exchange2"
    /\ IF answer.failed
       THEN /\ exchangeFailed
            /\ Finish(r)
            /\ response' = matched(r.track, NoFeatures)
       ELSE /\ storeToken(answer)
            /\ Resume(r, [r EXCEPT !.pc = "features",
                                   !.token = answer.access_token])
            /\ UNCHANGED response
    /\ UNCHANGED <<sessions, submissions, lastID, now>>

\* the audio-features call of getSpotifyAudioFeatures completes
EnhanceFeatures(r, answer) ==
    /\ r \in Enhancing /\ r.pc = "features"
    /\ Finish(r)
    /\ response' = matched(r.track, IF answer.failed THEN NoFeatures
                                    ELSE audioFeatures(answer))
    /\ UNCHANGED <<sessions, submissions, lastID, spotifyAccessToken,
                   tokenExpiry, now>>

---------------------------------------------------------------------------
(* The single-tenant server with OpenAI (src/server.js): its table           *)
(* submissions has no session_id; a submit stores the row, answers, and      *)
(* enhances the row in the background                                        *)

\* texts between the braces of a completion, by name, as JSON.parse reads
\* them; an absent or empty field is falsy
Payloads ==
    [ full |-> [ corrected_song_name |-> "Yesterday",
                 corrected_artist |-> "The Beatles", bpm |-> << 97 >>,
                 key_camelot |-> "7B", key_regular |-> "F major" ],
      partial |-> [ corrected_song_name |-> "", corrected_artist |-> NULL,
                    bpm |-> <<>>, key_camelot |-> "Unknown",
                    key_regular |-> "" ] ]

\* completion.choices[0].message.content, trimmed, as a sequence of pieces:
\* braces, free text, and the texts of Payloads
Contents ==
    { << "{", "full", "}" >>, << "{", "partial", "}" >>,
      << "text", "{", "full", "}", "text" >>,
      << "{", "full", "}", "text", "{", "}" >>,
      << "text" >>, << "{", "full" >> }

\* answers of openai.chat.completions.create; Failed when it throws
CompletionAnswers == { Failed } \cup [ failed : {FALSE}, content : Contents ]

\* response.match(/\{[\s\S]*\}/): from the first "{" to the last "}"
jsonMatch(content) ==
    LET opens == {i \in DOMAIN content : content[i] = "{"}
        first == CHOOSE i \in opens : \A j \in opens : i <= j
        closes == {i \in DOMAIN content : content[i] = "}" /\ i > first}
        last == CHOOSE i \in closes : \A j \in closes : j <= i
    IN IF opens = {} THEN content
       ELSE IF closes = {} THEN content
       ELSE SubSeq(content, first, last)

\* JSON.parse accepts the text: one object and nothing else
parses(text) ==
    /\ Len(text) = 3 /\ text[1] = "{" /\ text[3] = "}"
    /\ text[2] \in DOMAIN Payloads

\* the result of the catch branch of enhanceSongData
original(songName, artist) ==
    [ corrected_song_name |-> songName, corrected_artist |-> artist,
      bpm |-> <<>>, key_camelot |-> NULL, key_regular |-> NULL ]

\* enhanceSongData of src/server.js, for the answer of the completion
enhanceSongData(songName, artist, answer) ==
    IF answer.failed \/ ~ parses(jsonMatch(answer.content))
    THEN original(songName, artist)
    ELSE LET enhancedData == Payloads[jsonMatch(answer.content)[2]]
         IN [ corrected_song_name |->
                  IF Falsy(enhancedData.corrected_song_name) THEN songName
                  ELSE enhancedData.corrected_song_name,
              corrected_artist |->
                  IF Falsy(enhancedData.corrected_artist) THEN artist
                  ELSE enhancedData.corrected_artist,
              bpm |-> enhancedData.bpm,
              key_camelot |-> orNull(enhancedData.key_camelot),
              key_regular |-> orNull(enhancedData.key_regular) ]

Storing == {r \in InFlight : r.op = "store"}

Background == {r \in InFlight : r.op = "background"}

NumPipelines ==
    LET b == [r \in Storing \cup Background |-> inflight[r]]
    IN BagCardinality(b)

\* POST /api/submit arrives: validation, then the INSERT is queued
SubmitAsync(body) ==
    /\ IF Falsy(body.songName) \/ Falsy(body.artist)
       THEN /\ response' = [op |-> "submit", status |-> 400,
                            error |-> "Song name and artist are required"]
            /\ UNCHANGED inflight
       ELSE /\ lastID + Cardinality(Storing) < MaxSubmits
            /\ NumPipelines < MaxSubmits
            /\ Suspend([op |-> "store", body |-> body])
            /\ UNCHANGED response
    /\ UNCHANGED <<sessions, submissions, lastID, spotifyAccessToken,
                   tokenExpiry, now>>

\* the row INSERT INTO submissions of src/server.js stores
newSubmissionAsync(id, body) ==
    [ id |-> id, song_name |-> body.songName, artist |-> body.artist,
      user_name |-> orNull(body.userName),
      original_song_name |-> body.songName, original_artist |-> body.artist,
      bpm |-> <<>>, key_camelot |-> NULL, key_regular |-> NULL,
      created_at |-> currentTimestamp ]

\* stmt.run of the INSERT completes: the response is sent, then
\* enhanceSongData is called and awaits the completion
SubmitAsyncInsert(r, err) ==
    /\ r \in Storing
    /\ IF err
       THEN /\ Finish(r)
            /\ response' = [op |-> "submit", status |-> 500]
            /\ UNCHANGED <<submissions, lastID>>
       ELSE /\ lastID' = lastID + 1
            /\ submissions' =
                 submissions \cup {newSubmissionAsync(lastID + 1, r.body)}
            /\ response' = [op |-> "submit", status |-> 200, id |-> lastID + 1]
            /\ Resume(r, [op |-> "background", pc |-> "completion",
                          submissionId |-> lastID + 1,
                          songName |-> r.body.songName,
                          artist |-> r.body.artist])
    /\ UNCHANGED <<sessions, spotifyAccessToken, tokenExpiry, now>>

\* the completion arrives: enhanceSongData resolves and the UPDATE is queued
EnhanceCompletion(r, answer) ==
    /\ r \in Background /\ r.pc = "completion"
    /\ Resume(r, [op |-> "background", pc |-> "update",
                  submissionId |-> r.submissionId,
                  enhancedData |-> enhanceSongData(r.songName, r.artist, answer)])
    /\ UNCHANGED <<sessions, submissions, lastID, spotifyAccessToken,
                   tokenExpiry, now, response>>

\* an UPDATE that writes the corrected names over the originals too
updatedOriginals(rows, id, enhancedData) ==
    { IF row.id = id
      THEN [row EXCEPT !.song_name = enhancedData.corrected_song_name,
                       !.artist = enhancedData.corrected_artist,
                       !.original_song_name = enhancedData.corrected_song_name,
                       !.original_artist = enhancedData.corrected_artist,
                       !.bpm = enhancedData.bpm,
                       !.key_camelot = enhancedData.key_camelot,
                       !.key_regular = enhancedData.key_regular]
      ELSE row : row \in rows }

\* an UPDATE whose values are bound in the wrong order
updatedSwapped(rows, id, enhancedData) ==
    { IF row.id = id
      THEN [row EXCEPT !.song_name = enhancedData.corrected_artist,
                       !.artist = enhancedData.corrected_song_name,
                       !.bpm = enhancedData.bpm,
                       !.key_camelot = enhancedData.key_camelot,
                       !.key_regular = enhancedData.key_regular]
      ELSE row : row \in rows }

\* the rows after UPDATE submissions SET ... WHERE id = ?
updated(rows, id, enhancedData) ==
    { IF row.id = id
      THEN [row EXCEPT !.song_name = enhancedData.corrected_song_name,
                       !.artist = enhancedData.corrected_artist,
                       !.bpm = enhancedData.bpm,
                       !.key_camelot = enhancedData.key_camelot,
                       !.key_regular = enhancedData.key_regular]
      ELSE row : row \in rows }

\* an UPDATE whose error is answered to the client
BackgroundUpdateAnswers(r, err) ==
    /\ r \in Background /\ r.pc = "update"
    /\ Finish(r)
    /\ submissions' = IF err THEN submissions
                      ELSE updated(submissions, r.submissionId, r.enhancedData)
    /\ response' = IF err THEN [op |-> "submit", status |-> 500] ELSE response
    /\ UNCHANGED <<sessions, lastID, spotifyAccessToken, tokenExpiry, now>>

\* updateStmt.run completes; its error is logged
BackgroundUpdate(r, err) ==
    /\ r \in Background /\ r.pc = "update"
    /\ Finish(r)
    /\ submissions' = IF err THEN submissions
                      ELSE updated(submissions, r.submissionId, r.enhancedData)
    /\ UNCHANGED <<sessions, lastID, spotifyAccessToken, tokenExpiry, now,
                   response>>

\* a table without AUTOINCREMENT: once every row is deleted the ids start
\* again at 1
ClearAllResets(err) ==
    /\ IF err
       THEN /\ response' = [op |-> "clear", status |-> 500]
            /\ UNCHANGED <<submissions, lastID>>
       ELSE /\ submissions' = {}
            /\ lastID' = 0
            /\ response' = [op |-> "clear", status |-> 200,
                            deletedCount |-> Cardinality(submissions)]
    /\ UNCHANGED <<sessions, spotifyAccessToken, tokenExpiry, now, inflight>>

\* DELETE /api/clear of src/server.js: DELETE FROM submissions
ClearAll(err) ==
    /\ IF err
       THEN /\ response' = [op |-> "clear", status |-> 500]
            /\ UNCHANGED submissions
       ELSE /\ submissions' = {}
            /\ response' = [op |-> "clear", status |-> 200,
                            deletedCount |-> Cardinality(submissions)]
    /\ UNCHANGED <<sessions, lastID, spotifyAccessToken, tokenExpiry, now,
                   inflight>>

\* req.body of POST /api/submit of src/server.js
AsyncBodies == [ songName : SongNames, artist : Artists, userName : UserNames ]

---------------------------------------------------------------------------
(* The wall clock *)

Tick ==
    /\ now < MaxTicks * TickMs
    /\ now' = now + TickMs
    /\ UNCHANGED <<sessions, submissions, lastID, spotifyAccessToken,
                   tokenExpiry, inflight, response>>

---------------------------------------------------------------------------

SubmitBodies ==
    [ songName : SongNames, artist : Artists, userName : UserNames,
      sessionId : SessionIds, spotifyId : SpotifyIds ]

Init ==
    /\ sessions = {}
    /\ submissions = {}
    /\ lastID = 0
    /\ spotifyAccessToken = NoToken
    /\ tokenExpiry = <<>>
    /\ now = 0
    /\ inflight = EmptyBag
    /\ response = [op |-> "none"]

Next ==
    \/ \E name \in Names : NumInFlight < MaxInFlight /\ CreateSession(name)
    \/ \E r \in InFlight, sessionId \in FewCodes, err \in BOOLEAN :
         /\ r.op = "create" /\ r.pc = "lookup" /\ r.attempts <= MaxLookups
         /\ GenerateLookup(r, sessionId, err)
    \/ \E r \in InFlight, err \in BOOLEAN : InsertSession(r, err)
    \/ \E body \in SubmitBodies, err \in BOOLEAN : Submit(body, err)
    \/ \E r \in InFlight, answer \in OneTokenAnswers : SubmitExchange(r, answer)
    \/ \E r \in InFlight, answer \in FeaturesAnswers : SubmitFeatures(r, answer)
    \/ \E r \in InFlight, err \in BOOLEAN : SubmitInsert(r, err)
    \/ \E sessionId \in SessionIds, err \in BOOLEAN :
         ListSubmissions(sessionId, err)
    \/ \E r \in InFlight, err \in BOOLEAN : ListFetch(r, err)
    \/ \E sessionId \in SessionIds, err \in BOOLEAN : Clear(sessionId, err)
    \/ \E sessionId \in SessionIds, body \in SettingsBodies, err \in BOOLEAN :
         UpdateSettings(sessionId, body, err)

Spec == Init /\ [][Next]_vars

\* the session store alone, with MaxCreating creators at a time
NextSessions ==
    \/ \E name \in Names : CreateSession(name)
    \/ \E r \in InFlight, sessionId \in Codes, err \in BOOLEAN :
         GenerateLookup(r, sessionId, err)
    \/ \E r \in InFlight, err \in BOOLEAN : InsertSession(r, err)

SpecSessions == Init /\ [][NextSessions]_vars

\* the token cache, its callers of the suggestions endpoint, and the clock
NextToken ==
    \/ \E query \in Queries : Suggestions(query)
    \/ \E r \in InFlight, answer \in TokenAnswers : SuggestionsExchange(r, answer)
    \/ \E r \in InFlight, answer \in SearchAnswers : SuggestionsSearch(r, answer)
    \/ \E r \in InFlight, answer \in FeaturesAnswers :
         SuggestionsFeatures(r, answer)
    \/ Tick

SpecToken == Init /\ [][NextToken]_vars

\* the enrichment: enhanceSongData of the session-based server, and the
\* single-tenant server with its background enrichment
NextEnrich ==
    \/ \E songName \in SongNames, artist \in Artists : Enhance(songName, artist)
    \/ \E r \in InFlight, answer \in TokenAnswers : EnhanceExchange(r, answer)
    \/ \E r \in InFlight, answer \in VerifyAnswers : EnhanceSearch(r, answer)
    \/ \E r \in InFlight, answer \in TokenAnswers :
         EnhanceFeaturesExchange(r, answer)
    \/ \E r \in InFlight, answer \in FeaturesAnswers : EnhanceFeatures(r, answer)
    \/ \E body \in AsyncBodies : SubmitAsync(body)
    \/ \E r \in InFlight, err \in BOOLEAN : SubmitAsyncInsert(r, err)
    \/ \E r \in InFlight, answer \in CompletionAnswers :
         EnhanceCompletion(r, answer)
    \/ \E r \in InFlight, err \in BOOLEAN : BackgroundUpdate(r, err)
    \/ \E err \in BOOLEAN : ClearAll(err)

SpecEnrich == Init /\ [][NextEnrich]_vars

\* the suggestions endpoint with every key the audio features can report
NextKeys ==
    \/ \E query \in Queries : Suggestions(query)
    \/ \E r \in InFlight, answer \in OneTokenAnswers :
         SuggestionsExchange(r, answer)
    \/ \E r \in InFlight, answer \in SearchAnswers : SuggestionsSearch(r, answer)
    \/ \E r \in InFlight, answer \in KeyAnswers : SuggestionsFeatures(r, answer)

SpecKeys == Init /\ [][NextKeys]_vars

\* the sessions and their settings
NextSettings ==
    \/ \E name \in Names : CreateSession(name)
    \/ \E r \in InFlight, sessionId \in FewCodes, err \in BOOLEAN :
         /\ r.op = "create" /\ r.pc = "lookup" /\ r.attempts <= MaxLookups
         /\ GenerateLookup(r, sessionId, err)
    \/ \E r \in InFlight, err \in BOOLEAN : InsertSession(r, err)
    \/ \E sessionId \in SessionIds, body \in AllSettingsBodies, err \in BOOLEAN :
         UpdateSettings(sessionId, body, err)
    \/ \E sessionId \in SessionIds, err \in BOOLEAN : GetSettings(sessionId, err)

SpecSettings == Init /\ [][NextSettings]_vars

\* the route of the short codes
NextRoutes == \E sessionCode \in Paths : GetCode(sessionCode)

SpecRoutes == Init /\ [][NextRoutes]_vars

\* the session-based server has created, or is creating, a session
RunsSessions == sessions # {} \/ Creating # {}

\* the single-tenant server has stored, or is storing, a row
RunsSingleTenant ==
    \/ Storing \cup Background # {}
    \/ lastID > 0 /\ sessions = {}

\* the submits of either server: a run is one of the session-based server or
\* one of the single-tenant server with its background enrichment
NextSubmit ==
    \/ ~ RunsSingleTenant /\ \E name \in Names :
                               NumInFlight < MaxInFlight /\ CreateSession(name)
    \/ ~ RunsSingleTenant /\ \E r \in InFlight, sessionId \in FewCodes,
                                 err \in BOOLEAN :
                               /\ r.op = "create" /\ r.pc = "lookup"
                               /\ r.attempts <= MaxLookups
                               /\ GenerateLookup(r, sessionId, err)
    \/ ~ RunsSingleTenant /\ \E r \in InFlight, err \in BOOLEAN :
                               InsertSession(r, err)
    \/ ~ RunsSingleTenant /\ \E body \in SubmitBodies, err \in BOOLEAN :
                               Submit(body, err)
    \/ ~ RunsSingleTenant /\ \E r \in InFlight, answer \in OneTokenAnswers :
                               SubmitExchange(r, answer)
    \/ ~ RunsSingleTenant /\ \E r \in InFlight, answer \in FeaturesAnswers :
                               SubmitFeatures(r, answer)
    \/ ~ RunsSingleTenant /\ \E r \in InFlight, err \in BOOLEAN :
                               SubmitInsert(r, err)
    \/ ~ RunsSessions /\ \E body \in AsyncBodies : SubmitAsync(body)
    \/ ~ RunsSessions /\ \E r \in InFlight, err \in BOOLEAN :
                           SubmitAsyncInsert(r, err)
    \/ ~ RunsSessions /\ \E r \in InFlight, answer \in CompletionAnswers :
                           EnhanceCompletion(r, answer)
    \/ ~ RunsSessions /\ \E r \in InFlight, err \in BOOLEAN :
                           BackgroundUpdate(r, err)
    \/ ~ RunsSessions /\ \E err \in BOOLEAN : ClearAll(err)

SpecSubmit == Init /\ [][NextSubmit]_vars

---------------------------------------------------------------------------
(* Claims about the submission store, under Spec *)

\* C1: the rows GET /api/submissions answers with for an existing session A
\* are exactly the rows stored with session_id = A when the SELECT runs,
\* each once, and none of them is a row of another session.
C1_ListIsolation ==
    [][\A r \in Listing, err \in BOOLEAN :
         (ListFetch(r, err) /\ response'.status = 200) =>
           LET rows == response'.rows
               ids == {rows[i].id : i \in DOMAIN rows}
           IN /\ \A i \in DOMAIN rows : rows[i].session_id = r.sessionId
              /\ ids = {row.id : row \in {x \in submissions :
                                            x.session_id = r.sessionId}}
              /\ Len(rows) = Cardinality(ids)]_vars

\* a list answered with a row of its session while another session holds rows
C1_Witness ==
    /\ response.op = "list" /\ response.status = 200
    /\ Len(response.rows) >= 1
    /\ \E row \in submissions : row.session_id # response.rows[1].session_id

\* C2: a DELETE /api/clear for session A that succeeds removes every row of
\* A, leaves the rows of every other session as they were, and answers with
\* deletedCount = the number of rows A held before the delete.
C2_ClearFrame ==
    [][\A sessionId \in SessionIds :
         (sessionId # <<>> /\ Clear(sessionId, FALSE)) =>
           /\ response'.status = 200
           /\ submissions' = {row \in submissions : row.session_id # sessionId}
           /\ response'.deletedCount =
                Cardinality({row \in submissions : row.session_id = sessionId})]_vars

\* a clear that removed rows while rows of another session remain
C2_Witness ==
    /\ response.op = "clear" /\ response.status = 200
    /\ response.deletedCount >= 1
    /\ submissions # {}

\* C3 as stated: a submit whose sessionId is present and names no session is
\* answered 404 and stores nothing, whatever its other fields are.
C3_Original ==
    [][\A body \in SubmitBodies :
         (body.sessionId # <<>> /\ ~ (\E s \in sessions : s.id = body.sessionId)
            /\ Submit(body, FALSE)) =>
           (response'.status = 404 /\ submissions' = submissions)]_vars

\* C3, amended: a submit with a non-empty song name and artist whose
\* sessionId is present and names no session is answered 404, stores nothing
\* and suspends nothing, with or without a spotifyId; with an empty song name
\* or artist the answer is 400 and nothing is stored either.
C3_UnknownSession ==
    [][\A body \in SubmitBodies :
         (body.sessionId # <<>> /\ ~ (\E s \in sessions : s.id = body.sessionId)
            /\ Submit(body, FALSE)) =>
           /\ response'.op = "submit"
           /\ response'.status =
                IF body.songName \in {NULL, ""} \/ body.artist \in {NULL, ""}
                THEN 400 ELSE 404
           /\ submissions' = submissions /\ lastID' = lastID
           /\ inflight' = inflight]_vars

\* a submit answered 404 while rows are stored
C3_Witness ==
    /\ response.op = "submit" /\ response.status = 404
    /\ submissions # {}

\* C4: every stored submission names exactly one row of sessions.
C4_Referential ==
    \A row \in submissions :
        Cardinality({s \in sessions : s.id = row.session_id}) = 1

\* a row stored by a submit that was suspended on the audio-features lookup,
\* in a session whose settings were updated meanwhile or before
C4_Witness ==
    \E row \in submissions :
        /\ row.spotify_fetched = 1 /\ row.bpm # <<>>
        /\ \E s \in sessions : s.id = row.session_id /\ s.welcome_message = << "Welcome" >>

\* C5 as stated: submit, list and clear each answer 400 when sessionId is
\* absent and 404 when it names no session (the submit with a song name and
\* an artist, the statements without a database error).
C5_AsClaimed ==
    [][/\ \A body \in SubmitBodies :
            (body.songName = "yesterday" /\ body.artist = "beatles"
               /\ Submit(body, FALSE)) =>
              /\ body.sessionId = <<>> => response'.status = 400
              /\ (body.sessionId # <<>>
                    /\ ~ (\E s \in sessions : s.id = body.sessionId))
                   => response'.status = 404
       /\ \A sessionId \in SessionIds :
            ListSubmissions(sessionId, FALSE) =>
              /\ sessionId = <<>> => response'.status = 400
              /\ (sessionId # <<>> /\ ~ (\E s \in sessions : s.id = sessionId))
                   => response'.status = 404
       /\ \A sessionId \in SessionIds :
            Clear(sessionId, FALSE) =>
              /\ sessionId = <<>> => response'.status = 400
              /\ (sessionId # <<>> /\ ~ (\E s \in sessions : s.id = sessionId))
                   => response'.status = 404]_vars

---------------------------------------------------------------------------
(* Claims about the session store, under SpecSessions *)

\* C6: no two rows of sessions share an id.
C6_UniqueIds ==
    \A s, t \in sessions : s.id = t.id => s = t

\* a creator whose code passed the lookup and was inserted by another
\* creator before its own INSERT ran
C6_Witness ==
    \E r \in Creating :
        r.pc = "insert" /\ \E s \in sessions : s.id = r.sessionId

AlphaNumeric ==
    { "A", "B", "C", "D", "E", "F", "G", "H", "I", "J", "K", "L", "M",
      "N", "O", "P", "Q", "R", "S", "T", "U", "V", "W", "X", "Y", "Z",
      "0", "1", "2", "3", "4", "5", "6", "7", "8", "9" }

\* C7: a create that succeeds answers with an id of four characters of A-Z,
\* 0-9 that is the id of no session created before and of the session stored.
C7_FreshWellFormedId ==
    [][\A r \in Creating :
         (InsertSession(r, FALSE) /\ response'.status = 200) =>
           LET id == response'.id
           IN /\ Len(id) = 4
              /\ \A i \in 1 .. Len(id) : id[i] \in AlphaNumeric
              /\ ~ \E s \in sessions : s.id = id
              /\ \E s \in sessions' : s.id = id]_vars

\* the second of two creates has succeeded
C7_Witness ==
    /\ response.op = "create" /\ response.status = 200
    /\ Cardinality(sessions) = 2
    /\ inflight = EmptyBag

\* C8: every lookup of generateSessionId is one of at most 100; it ends the
\* generation or queues exactly the next lookup; when the lookup fails, or
\* when the 100th finds its code taken, the request is answered 500, is over,
\* and sessions is unchanged.
C8_BoundedRetry ==
    [][\A r \in Creating, sessionId \in Codes, err \in BOOLEAN :
         GenerateLookup(r, sessionId, err) =>
           /\ r.attempts <= 100
           /\ sessions' = sessions
           /\ BagCardinality(inflight') <= BagCardinality(inflight)
           /\ (err \/ (r.attempts = 100 /\ \E s \in sessions : s.id = sessionId)) =>
                /\ response' = [op |-> "create", status |-> 500]
                /\ BagCardinality(inflight') = BagCardinality(inflight) - 1
                /\ \A q \in BagToSet(inflight') :
                     CopiesIn(q, inflight') <= CopiesIn(q, inflight)]_vars

\* the 100th lookup of a generation is queued: 99 sampled codes were taken
C8_Witness ==
    \E r \in Creating : r.pc = "lookup" /\ r.attempts = 100

---------------------------------------------------------------------------
(* Claims about the token cache, under SpecToken *)

\* getSpotifyAccessToken has just returned the token r holds
TokenReturned(r) ==
    /\ r.op = "suggestions" /\ r.pc = "search"
    /\ CopiesIn(r, inflight') > CopiesIn(r, inflight)

\* C9: a call of getSpotifyAccessToken that returns while the stored expiry
\* is unset or not after the clock does not answer from the cache: its token
\* comes from an exchange that completes in this step and is the one stored;
\* an answer from the cache is the cached token, not yet expired.
C9_NoStaleToken ==
    [][\A r \in BagToSet(inflight') :
         TokenReturned(r) =>
           /\ (tokenExpiry = <<>> \/ now >= tokenExpiry[1]) =>
                (~ r.fromCache /\ r.token = spotifyAccessToken'
                   /\ tokenExpiry' # <<>>)
           /\ r.fromCache =>
                (r.token = spotifyAccessToken /\ r.token # NoToken
                   /\ tokenExpiry # <<>> /\ now < tokenExpiry[1])]_vars

\* the cache holds a one-hour token stored at time 0, the clock has reached
\* its expiry, and the only call in flight is exchanging instead of using it
C9_Witness ==
    /\ spotifyAccessToken # NoToken
    /\ tokenExpiry = << 3540000 >> /\ now >= 3540000
    /\ BagCardinality(inflight) = 1
    /\ \E r \in Suggesting : r.pc = "exchange"

\* the request r was suspended by this step
Started(r) == CopiesIn(r, inflight') > CopiesIn(r, inflight)

\* C11 as stated: a call answers from the cache exactly when the clock is
\* more than the 60 s margin before the stored expiry.
C11_Original ==
    [][\A query \in Queries :
         (Suggestions(query) /\ inflight' # inflight) =>
           \A r \in BagToSet(inflight') :
             Started(r) =>
               (r.fromCache <=>
                  (tokenExpiry # <<>> /\ now < tokenExpiry[1] - 60000))]_vars

\* C11, amended: a call answers from the cache, with the cached token and
\* without an exchange, exactly when a token is cached and the clock is
\* before the stored expiry; otherwise it starts an exchange, and an exchange
\* that succeeds stores its token with the expiry now + ttl - 60 s (the margin
\* is taken off once, when the expiry is stored) and returns that token.
C11_TokenExpiry ==
    [][/\ \A query \in Queries :
            (Suggestions(query) /\ inflight' # inflight) =>
              \A r \in BagToSet(inflight') :
                Started(r) =>
                  /\ r.fromCache <=>
                       (spotifyAccessToken \notin {"null", ""}
                          /\ tokenExpiry \notin {<<>>, <<0>>}
                          /\ now < tokenExpiry[1])
                  /\ r.fromCache =>
                       (r.pc = "search" /\ r.token = spotifyAccessToken)
                  /\ ~ r.fromCache => r.pc = "exchange"
                  /\ spotifyAccessToken' = spotifyAccessToken
                  /\ tokenExpiry' = tokenExpiry
       /\ \A r \in Suggesting, answer \in TokenAnswers :
            (~ answer.failed /\ SuggestionsExchange(r, answer)) =>
              /\ spotifyAccessToken' = answer.access_token
              /\ tokenExpiry' = << now + (answer.expires_in * 1000) - 60000 >>
              /\ \E q \in BagToSet(inflight') :
                   Started(q) /\ q.pc = "search"
                     /\ q.token = answer.access_token]_vars

\* a call answered from the cache less than 60 s before the stored expiry,
\* which a 90 s token stored at now + 30 s
C11_Witness ==
    /\ tokenExpiry # <<>> /\ tokenExpiry[1] = now + 30000
    /\ \E r \in Suggesting : r.fromCache /\ r.token = spotifyAccessToken

\* C10: when the exchange fails the caller gets no token (the suggestions
\* request is answered 500 for the missing token) and the cached token and
\* expiry are what they were.
C10_FailedExchangeKeepsCache ==
    [][\A r \in Suggesting :
         SuggestionsExchange(r, Failed) =>
           /\ spotifyAccessToken' = spotifyAccessToken
           /\ tokenExpiry' = tokenExpiry
           /\ response' = [op |-> "suggestions", status |-> 500,
                           error |-> "Failed to get Spotify access token"]
           /\ BagCardinality(inflight') = BagCardinality(inflight) - 1]_vars

\* an exchange failed while the cache held an expired token, which it keeps
C10_Witness ==
    /\ response.op = "suggestions" /\ response.status = 500
    /\ response.error = "Failed to get Spotify access token"
    /\ spotifyAccessToken # NoToken
    /\ tokenExpiry # <<>> /\ now >= tokenExpiry[1]


---------------------------------------------------------------------------
(* Claims about the enrichment, under SpecEnrich *)

\* a search answer whose first track has no artist: reading it throws
NoArtist ==
    [ failed |-> FALSE, tracks |-> << [Track EXCEPT !.artists = << >>] >> ]

\* completions without one whole object: JSON.parse throws on them
Undecodable == { << "text" >>, << "{", "full" >> }

\* the step ends the call r of enhanceSongData with a result
Resolved(r) ==
    /\ response'.op = "enhance"
    /\ BagCardinality(inflight') = BagCardinality(inflight) - 1
    /\ CopiesIn(r, inflight') = CopiesIn(r, inflight) - 1

\* the result is marked unmatched, names the inputs, and has no bpm and keys
IsFallback(result, songName, artist) ==
    /\ result.corrected_song_name = songName
    /\ result.corrected_artist = artist
    /\ result.bpm = <<>>
    /\ result.key_camelot = "null" /\ result.key_regular = "null"

\* C12 as stated: after every failure of a token exchange, of the search, of
\* the features call or of parsing, enhanceSongData resolves to an unmatched
\* result with the names it was given and no bpm and keys, in both servers.
C12_Original ==
    [][/\ \A r \in Enhancing :
            (\/ EnhanceExchange(r, Failed) \/ EnhanceSearch(r, Failed)
             \/ EnhanceSearch(r, NoArtist)
             \/ EnhanceFeaturesExchange(r, Failed)
             \/ EnhanceFeatures(r, Failed)) =>
              /\ Resolved(r)
              /\ ~ response'.spotify_verified
              /\ IsFallback(response', r.songName, r.artist)
       /\ \A r \in Background, answer \in CompletionAnswers :
            ((answer.failed \/ answer.content \in Undecodable)
               /\ EnhanceCompletion(r, answer)) =>
              \E q \in BagToSet(inflight') :
                /\ Started(q) /\ q.pc = "update"
                /\ IsFallback(q.enhancedData, r.songName, r.artist)]_vars

\* C12, amended: every failure ends the call with a result.  When the first
\* token exchange fails, the search fails or its answer cannot be read, the
\* result is unmatched, names the inputs and has no bpm and keys.  When the
\* track was found and the token exchange or the call for its audio features
\* fails, the result is marked matched and carries the track's name and
\* first artist, with no bpm and keys.  In src/server.js a completion that
\* fails or cannot be decoded gives the inputs and no bpm and keys.
C12_NeverThrows ==
    [][/\ \A r \in Enhancing :
            (\/ EnhanceExchange(r, Failed) \/ EnhanceSearch(r, Failed)
             \/ EnhanceSearch(r, NoArtist)) =>
              /\ Resolved(r)
              /\ ~ response'.spotify_verified
              /\ IsFallback(response', r.songName, r.artist)
       /\ \A r \in Enhancing :
            (EnhanceFeaturesExchange(r, Failed) \/ EnhanceFeatures(r, Failed)) =>
              /\ Resolved(r)
              /\ response'.spotify_verified
              /\ IsFallback(response', "Yesterday", "The Beatles")
       /\ \A r \in Background, answer \in CompletionAnswers :
            ((answer.failed \/ answer.content \in Undecodable)
               /\ EnhanceCompletion(r, answer)) =>
              \E q \in BagToSet(inflight') :
                /\ Started(q) /\ q.pc = "update"
                /\ IsFallback(q.enhancedData, r.songName, r.artist)]_vars

\* the audio features of a track found failed: the result is matched, with
\* the track's names and no bpm
C12_Witness ==
    /\ response.op = "enhance" /\ response.spotify_verified
    /\ response.corrected_song_name = "Yesterday" /\ response.bpm = <<>>


\* the search answered, with no track
NoTrack == [ failed |-> FALSE, tracks |-> << >> ]

\* C13: a lookup that finds no track resolves to a result with the names it
\* was given and no bpm and keys; the background update with such a result
\* leaves the row as it was stored at the submit (names equal to the
\* originals, no bpm and keys), and the same update again changes nothing.
C13_NoMatchPassThrough ==
    [][/\ \A r \in Enhancing :
            EnhanceSearch(r, NoTrack) =>
              /\ Resolved(r)
              /\ ~ response'.spotify_verified
              /\ IsFallback(response', r.songName, r.artist)
       /\ \A r \in Background, row \in submissions :
            (/\ BackgroundUpdate(r, FALSE)
             /\ row.id = r.submissionId
             /\ IsFallback(r.enhancedData, row.original_song_name,
                           row.original_artist)) =>
              /\ submissions' = submissions
              /\ row.song_name = row.original_song_name
              /\ row.artist = row.original_artist
              /\ row.bpm = <<>>
              /\ row.key_camelot = "null" /\ row.key_regular = "null"
              /\ { IF x.id = r.submissionId
                   THEN [x EXCEPT !.song_name = r.enhancedData.corrected_song_name,
                                  !.artist = r.enhancedData.corrected_artist,
                                  !.bpm = r.enhancedData.bpm,
                                  !.key_camelot = r.enhancedData.key_camelot,
                                  !.key_regular = r.enhancedData.key_regular]
                   ELSE x : x \in submissions' } = submissions']_vars

\* a lookup found no track, and a stored row whose background update is
\* over is as it was submitted
C13_Witness ==
    /\ response.op = "enhance" /\ ~ response.spotify_verified
    /\ \E row \in submissions :
         /\ row.song_name = "yesterday" /\ row.bpm = <<>>
         /\ row.key_camelot = "null"
         /\ ~ \E r \in Storing \cup Background : TRUE


---------------------------------------------------------------------------
(* Claims about the key converter, under SpecKeys *)

\* the labels of the wheel, by pitch class 0 .. 11
MajorLabels ==
    << "8A", "3A", "10A", "5A", "12A", "7A", "2A", "9A", "4A", "11A", "6A", "1A" >>

MinorLabels ==
    << "5B", "12B", "7B", "2B", "9B", "4B", "11B", "6B", "1B", "8B", "3B", "10B" >>

\* the 24 labels: a wheel number 1 .. 12 and a suffix
WheelLabels == { ToString(n) \o x : n \in 1 .. 12, x \in {"A", "B"} }

\* C14: the key of a suggestion whose audio features report pitch class k and
\* mode m is the label of k in the table of m - a number of 1 .. 12 followed
\* by A for major (1) and by B for minor (0) -, each table names every
\* number of 1 .. 12 once, different (k, m) give different labels, and the
\* key is null when the pitch class or the mode is -1.
C14_CamelotLabels ==
    [][\A r \in Suggesting, answer \in KeyAnswers :
         (/\ SuggestionsFeatures(r, answer)
          /\ ~ answer.failed /\ answer.tempo # 0 /\ Len(r.tracks) > 0) =>
           LET label == response'.suggestions[1].key
           IN /\ (answer.key = -1 \/ answer.mode = -1) <=> label = "null"
              /\ (answer.key # -1 /\ answer.mode = 1) =>
                    label = MajorLabels[answer.key + 1]
              /\ (answer.key # -1 /\ answer.mode = 0) =>
                    label = MinorLabels[answer.key + 1]
              /\ label # "null" => label \in WheelLabels
              /\ \A k \in 0 .. 11, m \in 0 .. 1 :
                   (convertToCamelotKey(k, m) = label) =>
                     (k = answer.key /\ m = answer.mode)
              /\ { convertToCamelotKey(k, 1) : k \in 0 .. 11 } =
                   { ToString(n) \o "A" : n \in 1 .. 12 }
              /\ { convertToCamelotKey(k, 0) : k \in 0 .. 11 } =
                   { ToString(n) \o "B" : n \in 1 .. 12 }]_vars

\* a suggestion answered with the label of B major, the last entry of the
\* major table
C14_Witness ==
    /\ response.op = "suggestions" /\ response.status = 200
    /\ Len(response.suggestions) = 1
    /\ response.suggestions[1].key = "1A"


---------------------------------------------------------------------------
(* Claims about the settings, under SpecSettings *)

\* the settings a GET /api/settings would answer with for session id, given
\* the table rows
ReadIn(rows, id) ==
    LET row == CHOOSE x \in rows : x.id = id
    IN [ welcomeMessage |->
             IF row.welcome_message \in {<< "null" >>, << >>}
                  \/ trim(row.welcome_message) = << >>
             THEN row.name ELSE row.welcome_message,
         subtitleMessage |->
             IF row.subtitle_message \in {<< "null" >>, << >>}
                  \/ trim(row.subtitle_message) = << >>
             THEN << "Submit your song below" >> ELSE row.subtitle_message,
         background |->
             IF row.background \in {<< "null" >>, << >>}
                  \/ trim(row.background) = << >>
             THEN << "#000" >> ELSE row.background ]

\* the value is given: the field is not undefined
Given(v) == v # << "null" >>

\* the value is given and has a character that is not white space
NotBlank(v) == v # << "null" >> /\ v # << >> /\ \E i \in DOMAIN v : v[i] # " "

\* a GET /api/settings answers with the settings read from the table
ReadsTable ==
    \A sessionId \in SessionIds :
        (response'.op = "settings" /\ GetSettings(sessionId, FALSE) /\ \E x \in sessions : x.id = sessionId) =>
          response'.settings = ReadIn(sessions, sessionId)

\* a step that is no update of the settings leaves every session's settings
NoInterveningWrite ==
    (/\ sessions' # sessions
     /\ ~ \E sessionId \in SessionIds, body \in AllSettingsBodies :
           UpdateSettings(sessionId, body, FALSE)) =>
      \A x \in sessions :
          x \in sessions' \/ ReadIn(sessions', x.id) = ReadIn(sessions, x.id)

\* C15 as stated: after an update of an existing session that gives its
\* three values, whatever they are, the settings read are those values.
C15_Original ==
    [][\A sessionId \in SessionIds, body \in AllSettingsBodies :
         (/\ response'.op = "update-settings"
          /\ UpdateSettings(sessionId, body, FALSE)
          /\ \E x \in sessions : x.id = sessionId
          /\ Given(body.welcomeMessage) /\ Given(body.subtitleMessage)
          /\ Given(body.background)) =>
           ReadIn(sessions', sessionId) = body]_vars

\* C15, amended: each value of an update of an existing session that has a
\* character that is not white space is what the settings read from then on
\* hold for its field, white space around it included, until the next
\* update; an empty or blank value reads as the default of its field.
C15_ReadAfterUpdate ==
    [][/\ \A sessionId \in SessionIds, body \in AllSettingsBodies :
            (/\ response'.op = "update-settings"
             /\ UpdateSettings(sessionId, body, FALSE)
             /\ \E x \in sessions : x.id = sessionId) =>
              LET read == ReadIn(sessions', sessionId)
                  name == (CHOOSE x \in sessions : x.id = sessionId).name
              IN /\ NotBlank(body.welcomeMessage) =>
                      read.welcomeMessage = body.welcomeMessage
                 /\ NotBlank(body.subtitleMessage) =>
                      read.subtitleMessage = body.subtitleMessage
                 /\ NotBlank(body.background) =>
                      read.background = body.background
                 /\ (Given(body.welcomeMessage) /\ ~ NotBlank(body.welcomeMessage))
                      => read.welcomeMessage = name
       /\ ReadsTable
       /\ NoInterveningWrite]_vars

\* a read answered with the three values of an update, the welcome message
\* with the spaces around it
C15_Witness ==
    /\ response.op = "settings" /\ response.status = 200
    /\ response.settings = [ welcomeMessage |-> << " ", "Hi", " " >>,
                             subtitleMessage |-> << "Sing" >>,
                             background |-> << "#fff" >> ]

\* C16: an update stores null for each field it omits, whatever the field
\* held, and the settings read then hold the default of the field: the name
\* of the session, 'Submit your song below', '#000'; a session just created
\* reads the same three defaults.
C16_DefaultsOnRead ==
    [][/\ \A sessionId \in SessionIds, body \in AllSettingsBodies :
            (/\ response'.op = "update-settings"
             /\ UpdateSettings(sessionId, body, FALSE)
             /\ \E x \in sessions : x.id = sessionId) =>
              LET row == CHOOSE x \in sessions' : x.id = sessionId
                  read == ReadIn(sessions', sessionId)
              IN /\ ~ Given(body.welcomeMessage) =>
                      (row.welcome_message = << "null" >>
                         /\ read.welcomeMessage = row.name)
                 /\ ~ Given(body.subtitleMessage) =>
                      (row.subtitle_message = << "null" >>
                         /\ read.subtitleMessage = << "Submit your song below" >>)
                 /\ ~ Given(body.background) =>
                      (row.background = << "null" >>
                         /\ read.background = << "#000" >>)
       /\ \A r \in Creating :
            (InsertSession(r, FALSE) /\ response'.status = 200) =>
              ReadIn(sessions', response'.id) =
                [ welcomeMessage |-> response'.name,
                  subtitleMessage |-> << "Submit your song below" >>,
                  background |-> << "#000" >> ]
       /\ ReadsTable]_vars

\* a read answered with the three defaults for a session whose stored
\* settings are null: an update that omitted them overwrote the values of
\* the create
C16_Witness ==
    /\ response.op = "settings" /\ response.status = 200
    /\ "sessionId" \in DOMAIN response
    /\ \E x \in sessions :
         /\ response.sessionId = x.id
         /\ x.welcome_message = << "null" >> /\ x.subtitle_message = << "null" >>
         /\ x.background = << "null" >>
         /\ response.settings = [ welcomeMessage |-> x.name,
                                  subtitleMessage |-> << "Submit your song below" >>,
                                  background |-> << "#000" >> ]


---------------------------------------------------------------------------
(* Claims about the order of a list, under Spec *)

\* C17 as stated: of any two rows a list answers with, the one stored later
\* (the one with the larger id) comes earlier.
C17_AsClaimed ==
    [][\A r \in Listing :
         (ListFetch(r, FALSE) /\ response'.status = 200) =>
           \A i, j \in DOMAIN response'.rows :
               i < j => response'.rows[i].id > response'.rows[j].id]_vars


---------------------------------------------------------------------------
(* Claims about the route of the short codes, under SpecRoutes *)

\* C18 as stated: the route redirects exactly the segments of four
\* characters, each an upper-case letter or a digit, and answers 404 to
\* every other segment.
C18_Original ==
    [][\A sessionCode \in Paths :
         GetCode(sessionCode) =>
           IF Len(sessionCode) = 4
                /\ \A i \in 1 .. 4 : sessionCode[i] \in AlphaNumeric
           THEN response'.status = 302
           ELSE response'.status = 404]_vars

\* C18, amended: the route redirects to /session/ followed by the segment as
\* it was given exactly the segments of four characters, each a letter of
\* either case or a digit, and answers 404 to every other segment.
C18_CodeRoute ==
    [][\A sessionCode \in Paths :
         GetCode(sessionCode) =>
           IF Len(sessionCode) = 4
                /\ \A i \in 1 .. 4 :
                     sessionCode[i] \in AlphaNumeric \cup
                       { "a", "b", "c", "d", "e", "f", "g", "h", "i", "j", "k",
                         "l", "m", "n", "o", "p", "q", "r", "s", "t", "u", "v",
                         "w", "x", "y", "z" }
           THEN response' = [op |-> "code", status |-> 302,
                             location |-> << "/session/", sessionCode >>]
           ELSE response' = [op |-> "code", status |-> 404]]_vars

\* a segment with a lower-case letter was redirected
C18_Witness ==
    /\ response.op = "code" /\ response.status = 302
    /\ response.location = << "/session/", << "a", "9", "A", "Z" >> >>


---------------------------------------------------------------------------
(* Claims about the enrichment of a submit, under Spec *)

\* C19: when the token exchange or the audio-features call of a submit
\* fails, no response is sent and nothing is stored by that step, and the
\* request goes on to its INSERT without bpm and keys; the INSERT of such a
\* request, when it succeeds, stores the row with null bpm, Camelot key and
\* regular key and answers 200 with the id of the row.
C19_EnrichmentFailure ==
    [][/\ \A r \in Submitting :
            (SubmitExchange(r, Failed) \/ SubmitFeatures(r, Failed)) =>
              /\ response' = response /\ submissions' = submissions
              /\ \E q \in BagToSet(inflight') :
                   /\ Started(q) /\ q.op = "submit" /\ q.pc = "insert"
                   /\ q.body = r.body
                   /\ q.features.bpm = <<>>
                   /\ q.features.key_camelot = "null"
                   /\ q.features.key_regular = "null"
              /\ BagCardinality(inflight') = BagCardinality(inflight)
       /\ \A r \in Submitting :
            (/\ SubmitInsert(r, FALSE)
             /\ r.body.spotifyId # "null" /\ r.features.bpm = <<>>) =>
              /\ response'.status = 200
              /\ \E row \in submissions' \ submissions :
                   /\ row.id = response'.id
                   /\ row.session_id = r.body.sessionId
                   /\ row.song_name = r.body.songName
                   /\ row.artist = r.body.artist
                   /\ row.bpm = <<>>
                   /\ row.key_camelot = "null" /\ row.key_regular = "null"
              /\ submissions \subseteq submissions']_vars

\* a submit with a spotifyId whose lookup failed was stored and answered 200
C19_Witness ==
    /\ response.op = "submit" /\ response.status = 200
    /\ \E row \in submissions :
         /\ row.id = response.id
         /\ row.spotify_fetched = 1 /\ row.bpm = <<>>


---------------------------------------------------------------------------
(* Claims about the original names of a row, under SpecEnrich *)

\* C20: a row is stored with original_song_name and original_artist equal to
\* the song name and the artist of its submit, by the INSERT of either
\* server, and every step leaves these two fields of every row it does not
\* delete as they are - the background update of src/server.js too, which
\* writes song_name and artist.
C20_OriginalSnapshot ==
    [][/\ \A r \in Storing :
            SubmitAsyncInsert(r, FALSE) =>
              \E row \in submissions' \ submissions :
                /\ submissions' = submissions \cup {row}
                /\ row.original_song_name = r.body.songName
                /\ row.original_artist = r.body.artist
       /\ \A r \in Submitting :
            SubmitInsert(r, FALSE) =>
              \E row \in submissions' \ submissions :
                /\ submissions' = submissions \cup {row}
                /\ row.original_song_name = r.body.songName
                /\ row.original_artist = r.body.artist
       /\ \A row \in submissions, after \in submissions' :
            after.id = row.id =>
              /\ after.original_song_name = row.original_song_name
              /\ after.original_artist = row.original_artist]_vars

\* a row whose names the background update corrected holds the names of its
\* submit as originals
C20_Witness ==
    \E row \in submissions :
        /\ row.song_name = "Yesterday" /\ row.artist = "The Beatles"
        /\ row.original_song_name = "yesterday"
        /\ row.original_artist = "beatles"

---------------------------------------------------------------------------
(* Claims about the frame of update-settings and the session records,     *)
(* under Spec                                                              *)

\* C21: POST /api/update-settings for session A leaves every row of
\* submissions and the row of every session other than A as they were, so
\* the settings GET /api/settings answers with for a session B # A are the
\* same before and after; the row of A keeps every field other than
\* welcome_message, subtitle_message and background.
C21_SettingsFrame ==
    [][\A sessionId \in SessionIds, body \in SettingsBodies, err \in BOOLEAN :
         (response'.op = "update-settings"
            /\ UpdateSettings(sessionId, body, err)) =>
           /\ submissions' = submissions /\ lastID' = lastID
           /\ \A s \in sessions : s.id # sessionId => s \in sessions'
           /\ \A t \in sessions' : t.id # sessionId => t \in sessions
           /\ \A s \in sessions, t \in sessions' :
                (s.id = t.id /\ s.id # sessionId) => settingsOf(t) = settingsOf(s)
           /\ \A s \in sessions : s.id = sessionId =>
                \E t \in sessions' :
                  t = [s EXCEPT !.welcome_message = t.welcome_message,
                                !.subtitle_message = t.subtitle_message,
                                !.background = t.background]
           /\ Cardinality(sessions') = Cardinality(sessions)]_vars

\* an update changed the settings of one of two sessions while the other
\* keeps those it was created with, and rows are stored
C21_Witness ==
    /\ response.op = "update-settings" /\ response.status = 200
    /\ submissions # {}
    /\ \E s, t \in sessions :
         /\ s.id # t.id
         /\ s.welcome_message = << "Welcome" >> /\ s.background = NullText
         /\ t.welcome_message = t.name /\ t.background = DefaultBackground

\* C22: every step keeps every row of sessions, with its id, name, creation
\* timestamp and active flag as they were; a step that changes a row of
\* sessions is an update-settings that succeeded, and a step that adds a row
\* is the INSERT of a create.
C22_StableSessions ==
    [][/\ \A s \in sessions :
            \E t \in sessions' :
              /\ t.id = s.id /\ t.rowid = s.rowid /\ t.name = s.name
              /\ t.created_at = s.created_at /\ t.is_active = s.is_active
       /\ Cardinality(sessions') >= Cardinality(sessions)
       /\ (\E s \in sessions : s \notin sessions') =>
            /\ response'.op = "update-settings" /\ response'.status = 200
            /\ \E sessionId \in SessionIds, body \in SettingsBodies :
                 UpdateSettings(sessionId, body, FALSE)
       /\ (\E t \in sessions' : \A s \in sessions : s.id # t.id) =>
            \E r \in Creating : InsertSession(r, FALSE)]_vars

\* both sessions are there after a clear that removed rows, one of them with
\* settings an update wrote and the name and flag it was created with
C22_Witness ==
    /\ response.op = "clear" /\ response.status = 200
    /\ response.deletedCount >= 1
    /\ Cardinality(sessions) = MaxSessions
    /\ \E s \in sessions :
         /\ s.welcome_message = << "Welcome" >> /\ s.subtitle_message = NullText
         /\ s.name = << "D", "J" >> /\ s.is_active = 1

---------------------------------------------------------------------------
(* Claims about the validation of a submit, under SpecSubmit *)

\* C23: a POST /api/submit whose song name or artist is missing or empty is
\* answered 400 "Song name and artist are required" and changes nothing
\* else: no row is stored and no request is suspended, in the single-tenant
\* server and in the session-based server; in the latter the answer is the
\* same with a sessionId that is absent or names no session and with a
\* session check that would fail, and the token cache is left alone.
C23_SubmitValidation ==
    [][/\ \A body \in SubmitBodies, err \in BOOLEAN :
            ((body.songName \in {NULL, ""} \/ body.artist \in {NULL, ""})
               /\ Submit(body, err)) =>
              /\ response' = [op |-> "submit", status |-> 400,
                              error |-> "Song name and artist are required"]
              /\ submissions' = submissions /\ lastID' = lastID
              /\ sessions' = sessions /\ inflight' = inflight
              /\ spotifyAccessToken' = spotifyAccessToken
              /\ tokenExpiry' = tokenExpiry
       /\ \A body \in AsyncBodies :
            ((body.songName \in {NULL, ""} \/ body.artist \in {NULL, ""})
               /\ SubmitAsync(body)) =>
              /\ response'.op = "submit" /\ response'.status = 400
              /\ submissions' = submissions /\ lastID' = lastID
              /\ inflight' = inflight]_vars

\* a submit of the session-based server was answered 400 for its song name
\* or artist while its session holds a row
C23_Witness ==
    /\ response = [op |-> "submit", status |-> 400,
                   error |-> "Song name and artist are required"]
    /\ \E row \in submissions : \E s \in sessions : s.id = row.session_id

---------------------------------------------------------------------------
(* Claims about the background enrichment of src/server.js, under          *)
(* SpecEnrich                                                              *)

\* C24: the INSERT of a submit that succeeds stores the row and answers 200
\* with its id in the step that starts the enrichment of that row, and no
\* enrichment of the row ran before; the completion of the enrichment,
\* failed or not, queues exactly one UPDATE for the row and leaves the
\* response and the rows alone; the UPDATE, when it succeeds, writes the
\* result over song_name, artist, bpm and the keys of the row if it is still
\* there, and when it fails writes nothing; it ends the enrichment of the
\* row and never touches the response.
C24_AckThenEnrich ==
    [][/\ \A r \in Storing :
            SubmitAsyncInsert(r, FALSE) =>
              /\ response' = [op |-> "submit", status |-> 200, id |-> lastID + 1]
              /\ \E row \in submissions' :
                   /\ row.id = lastID + 1
                   /\ submissions' = submissions \cup {row}
                   /\ row.bpm = <<>> /\ row.key_camelot = NULL
              /\ \A q \in Background : q.submissionId # lastID + 1
              /\ \E q \in BagToSet(inflight') :
                   /\ q.op = "background" /\ q.pc = "completion"
                   /\ q.submissionId = lastID + 1
                   /\ inflight'[q] = 1
       /\ \A r \in Background, answer \in CompletionAnswers :
            EnhanceCompletion(r, answer) =>
              /\ response' = response /\ submissions' = submissions
              /\ \E q \in BagToSet(inflight') :
                   /\ q.op = "background" /\ q.pc = "update"
                   /\ q.submissionId = r.submissionId
                   /\ inflight'[q] = 1
                   /\ inflight' = (inflight (-) SetToBag({r})) (+) SetToBag({q})
                   /\ answer.failed =>
                        q.enhancedData =
                          [ corrected_song_name |-> r.songName,
                            corrected_artist |-> r.artist, bpm |-> <<>>,
                            key_camelot |-> NULL, key_regular |-> NULL ]
       /\ \A r \in Background, err \in BOOLEAN :
            BackgroundUpdate(r, err) =>
              /\ response' = response
              /\ inflight' = inflight (-) SetToBag({r})
              /\ \A q \in BagToSet(inflight') :
                   q.op = "background" => q.submissionId # r.submissionId
              /\ submissions' =
                   IF err THEN submissions
                   ELSE { IF row.id = r.submissionId
                          THEN [row EXCEPT
                                  !.song_name = r.enhancedData.corrected_song_name,
                                  !.artist = r.enhancedData.corrected_artist,
                                  !.bpm = r.enhancedData.bpm,
                                  !.key_camelot = r.enhancedData.key_camelot,
                                  !.key_regular = r.enhancedData.key_regular]
                          ELSE row : row \in submissions }]_vars

\* the response of a submit stands while its row holds the corrected names
\* and the tempo, the enrichment or the UPDATE of another row having failed
C24_Witness ==
    /\ response.op = "submit" /\ response.status = 200
    /\ Background = {}
    /\ \E row \in submissions :
         /\ row.id = response.id
         /\ row.song_name = "Yesterday" /\ row.bpm = << 97 >>
    /\ \E row \in submissions :
         /\ row.id # response.id
         /\ row.song_name = "yesterday" /\ row.bpm = <<>>

\* the index of the "}" that closes the region open at depth, from i on;
\* 0 when there is none
RECURSIVE closeOf(_, _, _)
closeOf(content, i, depth) ==
    IF i > Len(content) THEN 0
    ELSE IF content[i] = "{" THEN closeOf(content, i + 1, depth + 1)
    ELSE IF content[i] = "}"
    THEN IF depth = 1 THEN i ELSE closeOf(content, i + 1, depth - 1)
    ELSE closeOf(content, i + 1, depth)

\* the first balanced {...} region of a text, the text itself when it has
\* none
FirstBalanced(content) ==
    LET opens == {i \in DOMAIN content : content[i] = "{"}
        first == CHOOSE i \in opens : \A j \in opens : i <= j
    IN IF opens = {} THEN content
       ELSE IF closeOf(content, first + 1, 1) = 0 THEN content
       ELSE SubSeq(content, first, closeOf(content, first + 1, 1))

\* a text that is one JSON object of the completions
IsObject(text) ==
    Len(text) = 3 /\ text[1] = "{" /\ text[3] = "}" /\ text[2] \in {"full", "partial"}

\* C25 as stated: the result of the enrichment is the object decoded from
\* the first balanced {...} region of the completion when that region is a
\* valid object, whatever text surrounds it, and the result of a transport
\* failure (the names of the submit, null tempo and keys) otherwise.
C25_AsClaimed ==
    [][\A r \in Background, answer \in CompletionAnswers :
         EnhanceCompletion(r, answer) =>
           \E q \in BagToSet(inflight') :
             /\ q.op = "background" /\ q.pc = "update"
             /\ q.submissionId = r.submissionId
             /\ IF ~ answer.failed /\ IsObject(FirstBalanced(answer.content))
                THEN /\ FirstBalanced(answer.content)[2] = "full" =>
                          /\ q.enhancedData.corrected_song_name = "Yesterday"
                          /\ q.enhancedData.corrected_artist = "The Beatles"
                          /\ q.enhancedData.bpm = << 97 >>
                          /\ q.enhancedData.key_camelot = "7B"
                          /\ q.enhancedData.key_regular = "F major"
                     /\ FirstBalanced(answer.content)[2] = "partial" =>
                          /\ q.enhancedData.corrected_song_name = r.songName
                          /\ q.enhancedData.corrected_artist = r.artist
                          /\ q.enhancedData.bpm = <<>>
                          /\ q.enhancedData.key_camelot = "Unknown"
                          /\ q.enhancedData.key_regular = NULL
                ELSE q.enhancedData =
                       [ corrected_song_name |-> r.songName,
                         corrected_artist |-> r.artist, bpm |-> <<>>,
                         key_camelot |-> NULL, key_regular |-> NULL ]]_vars

\* C26: the id of every row and of every enrichment in flight is at most
\* the AUTOINCREMENT counter, the counter never decreases and an INSERT
\* takes the next value, so an id names one submit for ever; the UPDATE of
\* an enrichment whose row a clear has removed changes no row, and every
\* UPDATE leaves the rows with another id as they are and neither adds nor
\* removes a row.
C26_LateUpdate ==
    [][/\ \A row \in submissions : row.id <= lastID
       /\ \A q \in Background : q.submissionId <= lastID
       /\ \A q, p \in Background : q.submissionId = p.submissionId => q = p
       /\ lastID' >= lastID
       /\ \A row \in submissions' :
            (\A old \in submissions : old.id # row.id) => row.id = lastID + 1
       /\ \A r \in Background, err \in BOOLEAN :
            BackgroundUpdate(r, err) =>
              /\ (\A row \in submissions : row.id # r.submissionId) =>
                   submissions' = submissions
              /\ \A row \in submissions :
                   row.id # r.submissionId => row \in submissions'
              /\ {row.id : row \in submissions'} = {row.id : row \in submissions}
              /\ Cardinality(submissions') = Cardinality(submissions)]_vars

\* an UPDATE with corrected names is queued for a row a clear has removed,
\* while a row stored after the clear is there
C26_Witness ==
    \E q \in Background :
        /\ q.pc = "update"
        /\ q.enhancedData.corrected_song_name = "Yesterday"
        /\ \A row \in submissions : row.id # q.submissionId
        /\ \E row \in submissions : row.id > q.submissionId

---------------------------------------------------------------------------
(* Claims about the rows of the session-based server, under Spec *)

\* C27: every row has song_name = original_song_name and artist =
\* original_artist; a row is added only by the INSERT of a submit whose
\* lookups are over, with spotify_fetched = 1 if the submit carried a
\* spotifyId and 0 if not, whatever the lookup returned; a stored row is in
\* the next state as it is, or is gone after a clear of its session.
C27_WrittenOnce ==
    [][/\ \A row \in submissions :
            /\ row.song_name = row.original_song_name
            /\ row.artist = row.original_artist
       /\ \A row \in submissions :
            \/ row \in submissions'
            \/ /\ \A after \in submissions' : after.id # row.id
               /\ response'.op = "clear" /\ response'.status = 200
               /\ Clear(row.session_id, FALSE)
       /\ \A row \in submissions' \ submissions :
            \E r \in Submitting :
              /\ r.pc = "insert" /\ SubmitInsert(r, FALSE)
              /\ submissions' = submissions \cup {row}
              /\ row.id = lastID + 1
              /\ row.session_id = r.body.sessionId
              /\ row.song_name = r.body.songName /\ row.artist = r.body.artist
              /\ row.spotify_fetched =
                   IF r.body.spotifyId \in {NULL, ""} THEN 0 ELSE 1
              /\ row.bpm = r.features.bpm
              /\ r.body.spotifyId \in {NULL, ""} => row.bpm = <<>>]_vars

\* a session holds a row of a submit without a spotifyId and a row of a
\* submit with one whose lookup failed, after an update of its settings
C27_Witness ==
    /\ response.op = "update-settings" /\ response.status = 200
    /\ \E row, other \in submissions :
         /\ row.session_id = other.session_id
         /\ row.spotify_fetched = 1 /\ row.bpm = <<>>
         /\ other.spotify_fetched = 0 /\ other.bpm = <<>>

---------------------------------------------------------------------------
(* Claims about concurrent callers of the token cache, under SpecToken *)

\* the cache answers at this moment
Fresh ==
    /\ spotifyAccessToken # NoToken
    /\ tokenExpiry # <<>> /\ now < tokenExpiry[1]

\* C28: a call of getSpotifyAccessToken made while the cache is empty or
\* expired starts an exchange of its own, also when another exchange is in
\* flight; an exchange that succeeds stores its token and the expiry
\* computed from its own expires_in in one step and returns that token to
\* its caller, an exchange that fails returns null and leaves the cache; no
\* other step writes the cache, so the cached token and expiry are always
\* those of the exchange that succeeded last; a caller in flight holds no
\* token while it exchanges and a token of an exchange afterwards.
C28_ConcurrentCallers ==
    [][/\ (spotifyAccessToken = NoToken) <=> (tokenExpiry = <<>>)
       /\ \A r \in Suggesting :
            /\ r.pc = "exchange" => (r.token = NoToken /\ ~ r.fromCache)
            /\ r.pc # "exchange" => r.token \in {"BQA", "BQB"}
       /\ \A r \in BagToSet(inflight') :
            (r.op = "suggestions" /\ r.pc # "features" /\ Started(r)) =>
              \/ \E p \in Suggesting, answer \in TokenAnswers :
                   /\ p.pc = "exchange" /\ ~ answer.failed
                   /\ SuggestionsExchange(p, answer)
              \/ IF Fresh
                 THEN /\ r.pc = "search" /\ r.fromCache
                      /\ r.token = spotifyAccessToken
                 ELSE r.pc = "exchange" /\ r.token = NoToken
       /\ \A r \in Suggesting, answer \in TokenAnswers :
            (r.pc = "exchange" /\ SuggestionsExchange(r, answer)) =>
              IF answer.failed
              THEN /\ spotifyAccessToken' = spotifyAccessToken
                   /\ tokenExpiry' = tokenExpiry
                   /\ response'.op = "suggestions" /\ response'.status = 500
                   /\ inflight' = inflight (-) SetToBag({r})
              ELSE /\ spotifyAccessToken' = answer.access_token
                   /\ tokenExpiry' =
                        << now + (answer.expires_in * 1000) - 60000 >>
                   /\ \E q \in BagToSet(inflight') :
                        /\ Started(q) /\ q.pc = "search"
                        /\ q.token = answer.access_token /\ ~ q.fromCache
       /\ (spotifyAccessToken' # spotifyAccessToken \/ tokenExpiry' # tokenExpiry) =>
            \E r \in Suggesting, answer \in TokenAnswers :
              /\ r.pc = "exchange" /\ ~ answer.failed
              /\ SuggestionsExchange(r, answer)]_vars

\* a caller is still exchanging while the cache holds the fresh token that
\* the exchange of another caller, still in flight, has stored meanwhile
C28_Witness ==
    /\ now = 0 /\ spotifyAccessToken = "BQA" /\ tokenExpiry = << 3540000 >>
    /\ \E r, p \in Suggesting :
         /\ r.pc = "exchange"
         /\ p.pc = "search" /\ ~ p.fromCache /\ p.token = "BQA"

=============================================================================
